---------------------------- MODULE Spec2Model ----------------------------
(***************************************************************************)
(* A model of findata_engine: the in-memory buffer (MemoryLayer), the      *)
(* on-disk segment store (DiskLayer) and the engine that composes them     *)
(* (StorageEngine).                                                        *)
(*                                                                         *)
(* Timestamps are whole microseconds since the epoch (spec section 3), so  *)
(* the duration_cast to microseconds in write_segment loses nothing on     *)
(* them whatever the tick of system_clock is.  TimeMin and TimeMax stand   *)
(* for time_point::min() and time_point::max(); both are values a point    *)
(* may carry.                                                              *)
(***************************************************************************)
EXTENDS Integers, Sequences, FiniteSets, TLC

\* ------------------------------------------------------------------------
\* Bounds of the model
\* ------------------------------------------------------------------------
MaxTs == 2

MaxBatch == 2

Symbols == {"A", "B"}

Values == {10, 20}

TimeMin == 0

TimeMax == MaxTs

Timestamps == TimeMin..TimeMax

\* struct TimeSeriesPoint
Points == [timestamp : Timestamps, value : Values, symbol : Symbols]

Batches == UNION {[1..n -> Points] : n \in 0..MaxBatch}

\* the largest max_size an LRUCache of the model is constructed with
MaxCacheSize == 2

\* the keys of an LRUCache of the model
CacheKeys == {"k1", "k2", "k3"}

\* the values of an LRUCache of the model: a stored vector is its number
\* of points
CacheValues == {1, 2}

\* the points of one value: one value is enough where the value of a point
\* plays no part in what the threads do to each other
ConcPoints == {p \in Points : p.value = 10}

\* std::optional<TimeSeriesPoint>: no point, or one
NoPoint == <<>>

VARIABLES
    symbol_data,        \* MemoryLayer::Impl::symbol_data : symbol -> SymbolData
    mem_total_points,   \* MemoryLayer::Impl::total_points_
    metadata,           \* DiskLayer::Impl::metadata : symbol -> (segment id -> SegmentInfo)
    files,              \* the segment files of the data directory : path -> content
    total_points,       \* StorageEngine::Impl::total_points
    op,                 \* the call the caller is in, with its arguments, or "idle"
    ret,                \* how that call ended: "true", "false", "exception", "blocked"
    result,             \* the vector (or the optional point) that call returned
    io_faults,          \* whether the file system of this run can fail
    acked               \* the points whose write has returned true to a thread

memVars == <<symbol_data, mem_total_points>>

diskVars == <<metadata, files>>

envVars == <<io_faults, acked>>

vars ==
    <<symbol_data, mem_total_points, metadata, files, total_points, op, ret, result,
      io_faults, acked>>

\* ------------------------------------------------------------------------
\* Sequences
\* ------------------------------------------------------------------------
Range(s) == {s[i] : i \in 1..Len(s)}

IsSortedByTs(s) == \A i \in 1..(Len(s) - 1) : s[i].timestamp <= s[i + 1].timestamp

IsStrictlyIncreasing(s) == \A i \in 1..(Len(s) - 1) : s[i].timestamp < s[i + 1].timestamp

Injections(n) == {f \in [1..n -> 1..n] : \A i, j \in 1..n : f[i] = f[j] => i = j}

\* std::sort with the comparator a.timestamp < b.timestamp: the order of
\* points that compare equal is unspecified, so every sorted permutation is
\* a possible outcome.
SortByTs(s) ==
    {t \in {[i \in 1..Len(s) |-> s[f[i]]] : f \in Injections(Len(s))} : IsSortedByTs(t)}

\* std::lower_bound(first, first + count, t) with a.timestamp < b.timestamp
RECURSIVE LowerBound(_, _, _, _)
LowerBound(s, t, first, count) ==
    IF count = 0 THEN first
    ELSE LET step == count \div 2
             it == first + step
         IN  IF s[it].timestamp < t
             THEN LowerBound(s, t, it + 1, count - step - 1)
             ELSE LowerBound(s, t, first, step)

\* std::upper_bound(first, first + count, t) with a.timestamp < b.timestamp
RECURSIVE UpperBound(_, _, _, _)
UpperBound(s, t, first, count) ==
    IF count = 0 THEN first
    ELSE LET step == count \div 2
             it == first + step
         IN  IF ~(t < s[it].timestamp)
             THEN UpperBound(s, t, it + 1, count - step - 1)
             ELSE UpperBound(s, t, first, step)

\* std::merge(a, b) with a.timestamp < b.timestamp: stable, an element of a
\* goes before the elements of b it compares equal to.
RECURSIVE Merge(_, _)
Merge(a, b) ==
    IF a = <<>> THEN b
    ELSE IF b = <<>> THEN a
    ELSE IF Head(b).timestamp < Head(a).timestamp
         THEN <<Head(b)>> \o Merge(a, Tail(b))
         ELSE <<Head(a)>> \o Merge(Tail(a), b)

\* std::unique with a.timestamp == b.timestamp followed by erase: of each
\* run of equal timestamps the first element stays.
RECURSIVE Unique(_)
Unique(s) ==
    IF Len(s) <= 1 THEN s
    ELSE LET rest == Unique(Tail(s))
         IN  IF Head(s).timestamp = Head(rest).timestamp
             THEN <<Head(s)>> \o Tail(rest)
             ELSE <<Head(s)>> \o rest

\* grouped_points[symbol]: the points of the batch with that symbol, in
\* batch order
Group(points, sym) == SelectSeq(points, LAMBDA p : p.symbol = sym)

BatchSymbols(points) == {points[i].symbol : i \in 1..Len(points)}

\* the groups as they would be if insert_batch did not sort them
SortedGroupsUnsorted(points) ==
    {[s \in BatchSymbols(points) |-> Group(points, s)]}

\* one sorted copy per group of the batch
SortedGroups(points) ==
    LET syms == BatchSymbols(points)
        all == UNION {SortByTs(Group(points, s)) : s \in syms}
    IN  {g \in [syms -> all] : \A s \in syms : g[s] \in SortByTs(Group(points, s))}

\* ------------------------------------------------------------------------
\* MemoryLayer
\* ------------------------------------------------------------------------
EmptySymbolData == [points |-> <<>>, total_points |-> 0]

get_or_create_symbol_data(sd, sym) ==
    IF sym \in DOMAIN sd THEN sd ELSE sd @@ (sym :> EmptySymbolData)

\* the iterator std::lower_bound gives insert
InsertPos(pts, point) == LowerBound(pts, point.timestamp, 1, Len(pts))

InsertIsDuplicate(sd, point) ==
    LET pts == get_or_create_symbol_data(sd, point.symbol)[point.symbol].points
        it == InsertPos(pts, point)
    IN  it /= Len(pts) + 1 /\ pts[it].timestamp = point.timestamp

\* points.insert(it, point)
InsertAt(pts, it, point) ==
    SubSeq(pts, 1, it - 1) \o <<point>> \o SubSeq(pts, it, Len(pts))

\* insert as it would be if a duplicate timestamp replaced the stored point
MemInsertOverwrite(sd, point) ==
    LET sd1 == get_or_create_symbol_data(sd, point.symbol)
        cur == sd1[point.symbol]
        it == InsertPos(cur.points, point)
    IN  IF InsertIsDuplicate(sd, point)
        THEN [sd1 EXCEPT ![point.symbol].points[it] = point]
        ELSE [sd1 EXCEPT ![point.symbol] =
                 [points |-> InsertAt(cur.points, it, point),
                  total_points |-> cur.total_points + 1]]

\* MemoryLayer::insert: the state after the call
MemInsert(sd, point) ==
    LET sd1 == get_or_create_symbol_data(sd, point.symbol)
        cur == sd1[point.symbol]
        it == InsertPos(cur.points, point)
    IN  IF InsertIsDuplicate(sd, point) THEN sd1
        ELSE [sd1 EXCEPT ![point.symbol] =
                 [points |-> InsertAt(cur.points, it, point),
                  total_points |-> cur.total_points + 1]]

\* insert_batch as it would be without the std::unique pass
MergedPointsNoUnique(existing, sorted_points) == Merge(existing, sorted_points)

\* the merged vector insert_batch builds for one symbol
MergedPoints(existing, sorted_points) == Unique(Merge(existing, sorted_points))

\* MemoryLayer::insert_batch: the state after the call, given the sorted
\* copy of each group
MemInsertBatch(sd, sorted) ==
    [s \in DOMAIN sd \cup DOMAIN sorted |->
        IF s \in DOMAIN sorted
        THEN LET cur == get_or_create_symbol_data(sd, s)[s]
                 merged == MergedPoints(cur.points, sorted[s])
             IN  [points |-> merged,
                  total_points |-> cur.total_points + (Len(merged) - Len(cur.points))]
        ELSE sd[s]]

\* the number of points insert_batch adds to total_points_
MemBatchNewPoints(sd, sorted) ==
    LET RECURSIVE Sum(_)
        Sum(S) == IF S = {} THEN 0
                  ELSE LET s == CHOOSE x \in S : TRUE
                           cur == get_or_create_symbol_data(sd, s)[s]
                       IN  (Len(MergedPoints(cur.points, sorted[s])) - Len(cur.points))
                           + Sum(S \ {s})
    IN  Sum(DOMAIN sorted)

\* get_range as it would be with std::lower_bound for the end of the range
MemGetRangeExclusive(sd, sym, start, end) ==
    IF sym \notin DOMAIN sd THEN <<>>
    ELSE LET points == sd[sym].points
             start_it == LowerBound(points, start, 1, Len(points))
             end_it == LowerBound(points, end, start_it, Len(points) + 1 - start_it)
         IN  SubSeq(points, start_it, end_it - 1)

\* MemoryLayer::get_range
MemGetRange(sd, sym, start, end) ==
    IF sym \notin DOMAIN sd THEN <<>>
    ELSE LET points == sd[sym].points
             start_it == LowerBound(points, start, 1, Len(points))
             end_it == UpperBound(points, end, start_it, Len(points) + 1 - start_it)
         IN  SubSeq(points, start_it, end_it - 1)

\* MemoryLayer::get_latest
MemGetLatest(sd, sym) ==
    IF sym \notin DOMAIN sd THEN NoPoint
    ELSE IF sd[sym].points = <<>> THEN NoPoint
    ELSE <<sd[sym].points[Len(sd[sym].points)]>>

\* MemoryLayer::clear_cache
MemClearCache(sd) == [s \in DOMAIN sd |-> EmptySymbolData]

\* MemoryLayer::get_symbols
MemGetSymbols(sd) == DOMAIN sd

\* ------------------------------------------------------------------------
\* The caller of the sequential specifications: one thread that makes one
\* call at a time.  A call acts in one step and leaves its result in op,
\* ret and result; call_returns hands them to the caller.  A call that
\* blocks for ever never returns.
\* ------------------------------------------------------------------------
IdleOp == [name |-> "idle"]

Idle == op = IdleOp

Returned == ret /= "blocked"

call_returns ==
    /\ ~Idle
    /\ Returned
    /\ op' = IdleOp
    /\ ret' = "true"
    /\ result' = <<>>
    /\ UNCHANGED <<symbol_data, mem_total_points, metadata, files, total_points, envVars>>

\* ------------------------------------------------------------------------
\* The memory buffer used on its own, one call at a time
\* ------------------------------------------------------------------------
MemInit ==
    /\ symbol_data = <<>>
    /\ mem_total_points = 0
    /\ metadata = <<>>
    /\ files = <<>>
    /\ total_points = 0
    /\ op = IdleOp
    /\ ret = "true"
    /\ result = <<>>
    /\ io_faults = FALSE
    /\ acked = {}

insert ==
    \E point \in Points :
        /\ Idle
        /\ symbol_data' = MemInsert(symbol_data, point)
        /\ mem_total_points' =
               IF InsertIsDuplicate(symbol_data, point) THEN mem_total_points
               ELSE mem_total_points + 1
        /\ op' = [name |-> "insert", point |-> point]
        /\ ret' = IF InsertIsDuplicate(symbol_data, point) THEN "false" ELSE "true"
        /\ result' = <<>>
        /\ UNCHANGED <<diskVars, total_points, envVars>>

insert_batch ==
    \E points \in Batches :
        \E sorted \in SortedGroups(points) :
            /\ Idle
            /\ symbol_data' = IF points = <<>> THEN symbol_data
                              ELSE MemInsertBatch(symbol_data, sorted)
            /\ mem_total_points' = mem_total_points + MemBatchNewPoints(symbol_data, sorted)
            /\ op' = [name |-> "insert_batch", points |-> points]
            /\ ret' = "true"
            /\ result' = <<>>
            /\ UNCHANGED <<diskVars, total_points, envVars>>

get_range ==
    \E sym \in Symbols, start \in Timestamps, end \in Timestamps :
        /\ Idle
        /\ op' = [name |-> "get_range", symbol |-> sym, start |-> start, end |-> end]
        /\ result' = MemGetRange(symbol_data, sym, start, end)
        /\ ret' = "true"
        /\ UNCHANGED <<memVars, diskVars, total_points, envVars>>

get_latest ==
    \E sym \in Symbols :
        /\ Idle
        /\ op' = [name |-> "get_latest", symbol |-> sym]
        /\ result' = MemGetLatest(symbol_data, sym)
        /\ ret' = "true"
        /\ UNCHANGED <<memVars, diskVars, total_points, envVars>>

clear_cache ==
    /\ Idle
    /\ symbol_data' = MemClearCache(symbol_data)
    /\ mem_total_points' = 0
    /\ op' = [name |-> "clear_cache"]
    /\ ret' = "true"
    /\ result' = <<>>
    /\ UNCHANGED <<diskVars, total_points, envVars>>

MemNext ==
    insert \/ insert_batch \/ get_range \/ get_latest \/ clear_cache \/ call_returns

SpecMem == MemInit /\ [][MemNext]_vars

\* ------------------------------------------------------------------------
\* DiskLayer
\* ------------------------------------------------------------------------
\* const size_t points_per_segment of the two compactions, scaled down
PointsPerSegment == 2

\* DiskConfig::enable_compression as DiskLayer's default argument sets it
EnableCompression == TRUE

\* what opening and writing a segment file can do: succeed, fail to open
\* (write_segment throws), or open and fail in a write (unnoticed)
IoOutcomes == {"ok", "open_fails", "write_fails"}

\* what locking the store's mutex again in the thread that holds it
\* exclusively can do (undefined behaviour): go on, throw
\* resource_deadlock_would_occur, or never return
RelockOutcomes == {"proceed", "throw", "block"}

\* data_dir / (symbol + "_" + std::to_string(segment_id) + ".seg")
SegmentPath(symbol, segment_id) == <<symbol, segment_id, "seg">>

\* compress_time_series over the TimePoints write_segment builds: the
\* timestamp in microseconds and the value of each point, the symbol left out
compress_time_series(points) ==
    [i \in 1..Len(points) |->
        [timestamp |-> points[i].timestamp, value |-> points[i].value]]

\* decompress_time_series and the conversion of read_segment: the symbol is
\* the one the segment was asked for
decompress_time_series(data, symbol) ==
    [i \in 1..Len(data) |->
        [timestamp |-> data[i].timestamp, value |-> data[i].value, symbol |-> symbol]]

\* the SegmentInfo write_segment builds
SegmentInfoOf(points, path) ==
    [start_time |-> points[1].timestamp,
     end_time |-> points[Len(points)].timestamp,
     num_points |-> Len(points),
     file_path |-> path,
     compressed |-> EnableCompression]

\* metadata[symbol][segment_id] = info
SetMetadata(md, symbol, segment_id, info) ==
    LET segs == IF symbol \in DOMAIN md THEN md[symbol] ELSE <<>>
        segs1 == [id \in DOMAIN segs \cup {segment_id} |->
                     IF id = segment_id THEN info ELSE segs[id]]
    IN  [s \in DOMAIN md \cup {symbol} |-> IF s = symbol THEN segs1 ELSE md[s]]

\* the file an ofstream leaves at path
PutFile(fs, path, content) ==
    [f \in DOMAIN fs \cup {path} |-> IF f = path THEN content ELSE fs[f]]

\* std::filesystem::remove
RemoveFile(fs, path) == [f \in DOMAIN fs \ {path} |-> fs[f]]

\* write_segment as it would be if it left the index alone
WriteSegmentNoIndex(d, symbol, points, segment_id, io) ==
    IF points = <<>> \/ io = "open_fails"
    THEN [d EXCEPT !.threw = (points /= <<>>)]
    ELSE LET path == SegmentPath(symbol, segment_id)
             info == SegmentInfoOf(points, path)
         IN  [d EXCEPT !.files = PutFile(d.files, path,
                                         [info |-> info,
                                          data |-> compress_time_series(points),
                                          complete |-> (io = "ok")])]

\* DiskLayer::Impl::write_segment on the store d = [metadata, files, threw]
WriteSegment(d, symbol, points, segment_id, io) ==
    IF points = <<>> THEN d
    ELSE IF io = "open_fails" THEN [d EXCEPT !.threw = TRUE]
    ELSE LET path == SegmentPath(symbol, segment_id)
             info == SegmentInfoOf(points, path)
             data == IF EnableCompression THEN compress_time_series(points) ELSE points
         IN  [metadata |-> SetMetadata(d.metadata, symbol, segment_id, info),
              files |-> PutFile(d.files, path,
                                [info |-> info, data |-> data, complete |-> (io = "ok")]),
              threw |-> d.threw]

SegmentIds(md, symbol) == IF symbol \in DOMAIN md THEN DOMAIN md[symbol] ELSE {}

\* the "next segment ID" of DiskLayer::write_batch
NextSegmentId(md, symbol) ==
    IF SegmentIds(md, symbol) = {} THEN 0
    ELSE (CHOOSE m \in SegmentIds(md, symbol) :
              \A id \in SegmentIds(md, symbol) : id <= m) + 1

\* DiskLayer::write_batch: the groups are written in the order the
\* unordered_map gives them (order), each from its sorted copy, until a
\* write_segment throws
RECURSIVE DiskWriteBatch(_, _, _, _)
DiskWriteBatch(d, order, sorted, io) ==
    IF order = <<>> \/ d.threw THEN d
    ELSE LET symbol == Head(order)
         IN  DiskWriteBatch(
                 WriteSegment(d, symbol, sorted[symbol],
                              NextSegmentId(d.metadata, symbol), io[symbol]),
                 Tail(order), sorted, io)

\* the orders in which a loop over an unordered container can visit S
Orders(S) ==
    {o \in [1..Cardinality(S) -> S] : \A i, j \in DOMAIN o : o[i] = o[j] => i = j}

\* read_segment throws when the segment's file cannot be opened; a file
\* whose write failed holds no payload the decoder accepts
ReadSegmentThrows(d, symbol, segment_id) ==
    /\ segment_id \in SegmentIds(d.metadata, symbol)
    /\ LET path == d.metadata[symbol][segment_id].file_path
       IN  path \notin DOMAIN d.files \/ ~d.files[path].complete

\* DiskLayer::Impl::read_segment
ReadSegment(d, symbol, segment_id) ==
    IF segment_id \notin SegmentIds(d.metadata, symbol) THEN <<>>
    ELSE LET info == d.metadata[symbol][segment_id]
             file == d.files[info.file_path]
         IN  IF info.compressed
             THEN decompress_time_series(file.data, symbol)
             ELSE SubSeq(file.data, 1, info.num_points)

\* the points of the segments ids of a symbol, one segment after another
RECURSIVE ReadSegments(_, _, _)
ReadSegments(d, symbol, ids) ==
    IF ids = {} THEN <<>>
    ELSE LET id == CHOOSE x \in ids : TRUE
         IN  ReadSegment(d, symbol, id) \o ReadSegments(d, symbol, ids \ {id})

\* the relevant_segments of range_query
RelevantSegments(md, symbol, start, end) ==
    {id \in SegmentIds(md, symbol) :
        md[symbol][id].start_time <= end /\ md[symbol][id].end_time >= start}

RangeQueryThrows(d, symbol, start, end) ==
    \E id \in RelevantSegments(d.metadata, symbol, start, end) :
        ReadSegmentThrows(d, symbol, id)

\* range_query as it would be with an inclusive upper bound
RangeQueryInclusive(d, symbol, start, end) ==
    SortByTs(SelectSeq(
        ReadSegments(d, symbol, RelevantSegments(d.metadata, symbol, start, end)),
        LAMBDA p : p.timestamp >= start /\ p.timestamp <= end))

\* DiskLayer::Impl::range_query: the vectors it can return (the final
\* std::sort leaves the order of equal timestamps open)
RangeQuery(d, symbol, start, end) ==
    SortByTs(SelectSeq(
        ReadSegments(d, symbol, RelevantSegments(d.metadata, symbol, start, end)),
        LAMBDA p : p.timestamp >= start /\ p.timestamp < end))

\* the cut as it would be if only the first run were written
ChunksFirstOnly(points) ==
    IF points = <<>> THEN <<>>
    ELSE IF Len(points) <= PointsPerSegment THEN <<points>>
    ELSE <<SubSeq(points, 1, PointsPerSegment)>>

\* all_points cut into runs of at most points_per_segment
RECURSIVE Chunks(_)
Chunks(points) ==
    IF Len(points) <= PointsPerSegment
    THEN IF points = <<>> THEN <<>> ELSE <<points>>
    ELSE <<SubSeq(points, 1, PointsPerSegment)>>
         \o Chunks(SubSeq(points, PointsPerSegment + 1, Len(points)))

\* the loop that writes the new segments 0, 1, ... until a write_segment throws
RECURSIVE WriteChunks(_, _, _, _, _)
WriteChunks(d, symbol, chunks, current_segment, io) ==
    IF chunks = <<>> \/ d.threw THEN d
    ELSE WriteChunks(WriteSegment(d, symbol, Head(chunks), current_segment, io),
                     symbol, Tail(chunks), current_segment + 1, io)

\* std::filesystem::remove of every segment file of the symbol
RECURSIVE RemoveSegmentFiles(_, _, _)
RemoveSegmentFiles(fs, segs, ids) ==
    IF ids = {} THEN fs
    ELSE LET id == CHOOSE x \in ids : TRUE
         IN  RemoveSegmentFiles(RemoveFile(fs, segs[id].file_path), segs, ids \ {id})

\* symbol_it->second.clear()
ClearSegments(md, symbol) == [md EXCEPT ![symbol] = <<>>]

\* the vectors std::sort can leave in all_points
SortedAllPoints(d, symbol) ==
    SortByTs(ReadSegments(d, symbol, SegmentIds(d.metadata, symbol)))

\* DiskLayer::Impl::optimize_segments once its read_segment and
\* write_segment calls got past the mutex: all_points is the sorted vector
CompactSegments(d, symbol, all_points, io) ==
    LET removed == RemoveSegmentFiles(d.files, d.metadata[symbol],
                                      DOMAIN d.metadata[symbol])
    IN  IF all_points = <<>>
        THEN [d EXCEPT !.files = removed]
        ELSE WriteChunks([metadata |-> ClearSegments(d.metadata, symbol),
                          files |-> removed, threw |-> FALSE],
                         symbol, Chunks(all_points), 0, io)

\* the body of optimize_index's loop as it would be without std::unique
OptimizeSymbolNoUnique(d, symbol, all_points, io) ==
    CompactSegments(d, symbol, all_points, io)

\* the body of optimize_index's loop for one symbol once its read_segment
\* and write_segment calls got past the mutex; an exception is caught there
OptimizeSymbol(d, symbol, all_points, io) ==
    IF all_points = <<>> THEN d
    ELSE LET unique == Unique(all_points)
             removed == RemoveSegmentFiles(d.files, d.metadata[symbol],
                                           DOMAIN d.metadata[symbol])
             done == WriteChunks([metadata |-> ClearSegments(d.metadata, symbol),
                                  files |-> removed, threw |-> FALSE],
                                 symbol, Chunks(unique), 0, io)
         IN  [done EXCEPT !.threw = FALSE]

\* DiskLayer::optimize_index over the symbols of the index, given the
\* sorted all_points of each and what the file system does to each: a
\* read_segment that throws leaves the symbol as it is, the exception is
\* caught in the loop
RECURSIVE OptimizeIndex(_, _, _, _)
OptimizeIndex(d, order, sorted, io) ==
    IF order = <<>> THEN d
    ELSE LET symbol == Head(order)
             next == IF \E id \in SegmentIds(d.metadata, symbol) :
                            ReadSegmentThrows(d, symbol, id)
                     THEN d
                     ELSE OptimizeSymbol(d, symbol, sorted[symbol], io[symbol])
         IN  OptimizeIndex(next, Tail(order), sorted, io)

\* one sorted all_points per symbol of the index
SortedIndex(d) ==
    LET syms == DOMAIN d.metadata
        all == UNION {SortedAllPoints(d, s) : s \in syms}
    IN  {g \in [syms -> all] : \A s \in syms : g[s] \in SortedAllPoints(d, s)}

\* the symbols whose compaction reaches a read_segment under the held lock
HasSegments(md, symbol) == SegmentIds(md, symbol) /= {}

Disk == [metadata |-> metadata, files |-> files, threw |-> FALSE]

AllOk == [s \in Symbols |-> "ok"]

\* what the file system can do to the segment of each symbol of a flush
IoChoices(symbols) ==
    IF io_faults THEN [symbols -> IoOutcomes] ELSE [symbols -> {"ok"}]

TotalSegments(md) ==
    LET RECURSIVE Sum(_)
        Sum(S) == IF S = {} THEN 0
                  ELSE LET s == CHOOSE x \in S : TRUE
                       IN  Cardinality(DOMAIN md[s]) + Sum(S \ {s})
    IN  Sum(DOMAIN md)

\* what the model's cap on segments counts: the entries of the index or the
\* files of the directory, whichever are more
SegmentsKept ==
    IF TotalSegments(metadata) >= Cardinality(DOMAIN files)
    THEN TotalSegments(metadata) ELSE Cardinality(DOMAIN files)

\* ------------------------------------------------------------------------
\* The segment store used on its own, one call at a time, no I/O failure
\* ------------------------------------------------------------------------
MaxSegments == 2

DiskInit ==
    /\ symbol_data = <<>>
    /\ mem_total_points = 0
    /\ metadata = <<>>
    /\ files = <<>>
    /\ total_points = 0
    /\ op = IdleOp
    /\ ret = "true"
    /\ result = <<>>
    /\ io_faults = FALSE
    /\ acked = {}

disk_write_batch ==
    /\ Idle
    /\ \E points \in Batches :
        /\ SegmentsKept + Cardinality(BatchSymbols(points)) <= MaxSegments
        /\ \E sorted \in SortedGroups(points), order \in Orders(BatchSymbols(points)) :
            LET d == DiskWriteBatch(Disk, order, sorted, AllOk)
            IN  /\ metadata' = d.metadata
                /\ files' = d.files
                /\ op' = [name |-> "disk_write_batch", points |-> points]
                /\ ret' = "true"
                /\ result' = <<>>
                /\ UNCHANGED <<memVars, total_points, envVars>>

disk_read_range ==
    /\ Idle
    /\ \E sym \in Symbols, start \in Timestamps, end \in Timestamps :
        \E r \in RangeQuery(Disk, sym, start, end) :
            /\ op' = [name |-> "disk_read_range", symbol |-> sym,
                      start |-> start, end |-> end]
            /\ result' = r
            /\ ret' = "true"
            /\ UNCHANGED <<memVars, diskVars, total_points, envVars>>

\* the stores DiskLayer::compact_segments can leave, with how the call ended
CompactSegmentsOutcomes(d, symbol, relock) ==
    IF ~HasSegments(d.metadata, symbol)
    THEN {[metadata |-> d.metadata, files |-> d.files, ret |-> "true"]}
    ELSE IF relock = "throw"
    THEN {[metadata |-> d.metadata, files |-> d.files, ret |-> "exception"]}
    ELSE IF relock = "block"
    THEN {[metadata |-> d.metadata, files |-> d.files, ret |-> "blocked"]}
    ELSE {LET c == CompactSegments(d, symbol, all_points, "ok")
          IN  [metadata |-> c.metadata, files |-> c.files, ret |-> "true"] :
             all_points \in SortedAllPoints(d, symbol)}

\* the stores DiskLayer::optimize_index can leave, with how the call ended
\* and what the file system did to each symbol (io): an exception of
\* read_segment or write_segment is caught in the loop
OptimizeIndexOutcomes(d, relock) ==
    LET unused == [s \in DOMAIN d.metadata |-> "ok"]
    IN  IF \A symbol \in DOMAIN d.metadata : ~HasSegments(d.metadata, symbol)
        THEN {[metadata |-> d.metadata, files |-> d.files, ret |-> "true", io |-> unused]}
        ELSE IF relock = "throw"
        THEN {[metadata |-> d.metadata, files |-> d.files, ret |-> "true", io |-> unused]}
        ELSE IF relock = "block"
        THEN {[metadata |-> d.metadata, files |-> d.files, ret |-> "blocked", io |-> unused]}
        ELSE {LET o == OptimizeIndex(d, order, sorted, io)
              IN  [metadata |-> o.metadata, files |-> o.files, ret |-> "true", io |-> io] :
                 sorted \in SortedIndex(d), order \in Orders(DOMAIN d.metadata),
                 io \in IoChoices(DOMAIN d.metadata)}

compact_segments ==
    /\ Idle
    /\ \E sym \in Symbols, relock \in RelockOutcomes :
        \E c \in CompactSegmentsOutcomes(Disk, sym, relock) :
            /\ op' = [name |-> "compact_segments", symbol |-> sym]
            /\ metadata' = c.metadata
            /\ files' = c.files
            /\ ret' = c.ret
            /\ result' = <<>>
            /\ UNCHANGED <<memVars, total_points, envVars>>

optimize_index ==
    /\ Idle
    /\ \E relock \in RelockOutcomes :
        \E o \in OptimizeIndexOutcomes(Disk, relock) :
            /\ op' = [name |-> "optimize_index", relock |-> relock, io |-> o.io]
            /\ metadata' = o.metadata
            /\ files' = o.files
            /\ ret' = o.ret
            /\ result' = <<>>
            /\ UNCHANGED <<memVars, total_points, envVars>>

DiskNext ==
    \/ disk_write_batch \/ disk_read_range \/ compact_segments \/ optimize_index
    \/ call_returns

SpecDisk == DiskInit /\ [][DiskNext]_vars

\* ------------------------------------------------------------------------
\* The segment store compacted over a file system that can fail
\* ------------------------------------------------------------------------
OptimizeIOInit ==
    /\ symbol_data = <<>>
    /\ mem_total_points = 0
    /\ metadata = <<>>
    /\ files = <<>>
    /\ total_points = 0
    /\ op = IdleOp
    /\ ret = "true"
    /\ result = <<>>
    /\ io_faults = TRUE
    /\ acked = {}

\* write_batch of points of one value: the value of a point plays no part
\* in what a failure does to the compaction
disk_write_batch_one_value ==
    disk_write_batch /\ \A i \in 1..Len(op'.points) : op'.points[i] \in ConcPoints

OptimizeIONext == disk_write_batch_one_value \/ optimize_index \/ call_returns

SpecOptimizeIO == OptimizeIOInit /\ [][OptimizeIONext]_vars

\* ------------------------------------------------------------------------
\* StorageEngine
\* ------------------------------------------------------------------------
\* EngineConfig::max_memory_points, scaled down
MaxMemoryPoints == 3

\* the cap the model puts on the counter total_points
MaxTotalPoints == 3

\* needs_flush of write_point and write_batch
\* the test as it would be with a threshold that is never reached
NeedsFlushNever(n) == n > MaxMemoryPoints + MaxTotalPoints + MaxBatch

NeedsFlush(n) == n >= MaxMemoryPoints

\* points_to_flush: the full range of every symbol of the buffer, in the
\* order the unordered_set gives the symbols
RECURSIVE PointsToFlush(_, _)
PointsToFlush(sd, symbols) ==
    IF symbols = <<>> THEN <<>>
    ELSE MemGetRange(sd, Head(symbols), TimeMin, TimeMax)
         \o PointsToFlush(sd, Tail(symbols))

\* the end of flush once disk_layer->write_batch is over: it returned true
\* and the buffer is cleared, or it threw and the exception leaves flush
FlushResult(sd, n, d) ==
    IF d.threw
    THEN [symbol_data |-> sd, mem_total_points |-> n,
          metadata |-> d.metadata, files |-> d.files, ret |-> "exception"]
    ELSE [symbol_data |-> MemClearCache(sd), mem_total_points |-> 0,
          metadata |-> d.metadata, files |-> d.files, ret |-> "true"]

\* StorageEngine::Impl::flush run alone on the buffer (sd, n) and the store
\* d: the states it can leave, with how the call ended
FlushOutcomes(sd, n, d) ==
    UNION {LET points_to_flush == PointsToFlush(sd, symbols)
           IN  IF points_to_flush = <<>>
               THEN {[symbol_data |-> sd, mem_total_points |-> n,
                      metadata |-> d.metadata, files |-> d.files, ret |-> "true"]}
               ELSE {FlushResult(sd, n, DiskWriteBatch(d, order, sorted, io)) :
                        sorted \in SortedGroups(points_to_flush),
                        order \in Orders(BatchSymbols(points_to_flush)),
                        io \in IoChoices(BatchSymbols(points_to_flush))}
           : symbols \in Orders(MemGetSymbols(sd))}

\* the segments a flush of the buffer adds stay within the model's cap
FlushFits(sd) ==
    SegmentsKept + Cardinality({s \in DOMAIN sd : sd[s].points /= <<>>})
        <= MaxSegments

\* the part of write_point and write_batch after the insert: the buffer is
\* (sd, n) and the counter has been raised
AfterInsert(sd, n) ==
    IF NeedsFlush(n)
    THEN /\ FlushFits(sd)
         /\ \E f \in FlushOutcomes(sd, n, Disk) :
                /\ symbol_data' = f.symbol_data
                /\ mem_total_points' = f.mem_total_points
                /\ metadata' = f.metadata
                /\ files' = f.files
                /\ ret' = f.ret
    ELSE /\ symbol_data' = sd
         /\ mem_total_points' = n
         /\ UNCHANGED diskVars
         /\ ret' = "true"

\* write_point as it would be if a refused insert were counted and could
\* trigger the flush like an accepted one
WritePointCountsDuplicate(point) ==
    /\ total_points < MaxTotalPoints
    /\ total_points' = total_points + 1
    /\ AfterInsert(MemInsert(symbol_data, point),
                   mem_total_points + (IF InsertIsDuplicate(symbol_data, point) THEN 0 ELSE 1))

\* StorageEngine::Impl::write_point
WritePoint(point) ==
    IF InsertIsDuplicate(symbol_data, point)
    THEN /\ symbol_data' = MemInsert(symbol_data, point)
         /\ UNCHANGED <<mem_total_points, diskVars, total_points>>
         /\ ret' = "false"
    ELSE /\ total_points < MaxTotalPoints
         /\ total_points' = total_points + 1
         /\ AfterInsert(MemInsert(symbol_data, point), mem_total_points + 1)

\* StorageEngine::Impl::write_batch
WriteBatch(points, sorted) ==
    IF points = <<>>
    THEN /\ UNCHANGED <<memVars, diskVars, total_points>>
         /\ ret' = "true"
    ELSE /\ total_points + Len(points) <= MaxTotalPoints
         /\ total_points' = total_points + Len(points)
         /\ AfterInsert(MemInsertBatch(symbol_data, sorted),
                        mem_total_points + MemBatchNewPoints(symbol_data, sorted))

\* StorageEngine::Impl::flush called on its own
Flush ==
    /\ FlushFits(symbol_data)
    /\ \E f \in FlushOutcomes(symbol_data, mem_total_points, Disk) :
           /\ symbol_data' = f.symbol_data
           /\ mem_total_points' = f.mem_total_points
           /\ metadata' = f.metadata
           /\ files' = f.files
           /\ ret' = f.ret

\* StorageEngine::Impl::read_range: the vectors it can return from the
\* buffer sd and the store d
EngineReadRange(sd, d, symbol, start, end) ==
    UNION {SortByTs(MemGetRange(sd, symbol, start, end) \o disk_points) :
              disk_points \in RangeQuery(d, symbol, start, end)}

\* StorageEngine::Impl::get_latest: the latest point of the buffer if the
\* buffer holds one for the symbol, else the last point of the full-range
\* read of the segments, else nothing
EngineGetLatest(sd, d, symbol) ==
    IF MemGetLatest(sd, symbol) # NoPoint THEN {MemGetLatest(sd, symbol)}
    ELSE {IF disk_points = <<>> THEN NoPoint
          ELSE <<disk_points[Len(disk_points)]>> :
             disk_points \in RangeQuery(d, symbol, TimeMin, TimeMax)}

\* StorageEngine::Impl::optimize: flush, then optimize_index on what the
\* flush left, unless the flush threw
OptimizeOutcomes(sd, n, d, relock) ==
    UNION {IF f.ret = "exception" THEN {f}
           ELSE {[symbol_data |-> f.symbol_data,
                  mem_total_points |-> f.mem_total_points,
                  metadata |-> o.metadata, files |-> o.files, ret |-> o.ret] :
                    o \in OptimizeIndexOutcomes(
                             [metadata |-> f.metadata, files |-> f.files,
                              threw |-> FALSE], relock)}
           : f \in FlushOutcomes(sd, n, d)}

\* ------------------------------------------------------------------------
\* The engine, one call at a time
\* ------------------------------------------------------------------------
EngineInit ==
    /\ symbol_data = <<>>
    /\ mem_total_points = 0
    /\ metadata = <<>>
    /\ files = <<>>
    /\ total_points = 0
    /\ op = IdleOp
    /\ ret = "true"
    /\ result = <<>>
    /\ io_faults = FALSE
    /\ acked = {}

write_point ==
    /\ Idle
    /\ \E point \in Points :
        /\ WritePoint(point)
        /\ op' = [name |-> "write_point", point |-> point]
        /\ result' = <<>>
        /\ UNCHANGED envVars

write_batch ==
    /\ Idle
    /\ \E points \in Batches :
        \E sorted \in SortedGroups(points) :
            /\ WriteBatch(points, sorted)
            /\ op' = [name |-> "write_batch", points |-> points]
            /\ result' = <<>>
            /\ UNCHANGED envVars

flush ==
    /\ Idle
    /\ Flush
    /\ op' = [name |-> "flush"]
    /\ result' = <<>>
    /\ UNCHANGED <<total_points, envVars>>

read_range ==
    /\ Idle
    /\ \E sym \in Symbols, start \in Timestamps, end \in Timestamps :
        /\ op' = [name |-> "read_range", symbol |-> sym, start |-> start, end |-> end]
        /\ UNCHANGED <<memVars, diskVars, total_points, envVars>>
        /\ IF RangeQueryThrows(Disk, sym, start, end)
           THEN ret' = "exception" /\ result' = <<>>
           ELSE /\ ret' = "true"
                /\ \E r \in EngineReadRange(symbol_data, Disk, sym, start, end) :
                       result' = r

engine_get_latest ==
    /\ Idle
    /\ \E sym \in Symbols :
        /\ op' = [name |-> "engine_get_latest", symbol |-> sym]
        /\ UNCHANGED <<memVars, diskVars, total_points, envVars>>
        /\ IF MemGetLatest(symbol_data, sym) = NoPoint
              /\ RangeQueryThrows(Disk, sym, TimeMin, TimeMax)
           THEN ret' = "exception" /\ result' = <<>>
           ELSE /\ ret' = "true"
                /\ \E r \in EngineGetLatest(symbol_data, Disk, sym) : result' = r

\* StorageEngine::Impl::get_symbols: the keys of the buffer's map
engine_get_symbols ==
    /\ Idle
    /\ op' = [name |-> "engine_get_symbols", symbols |-> MemGetSymbols(symbol_data)]
    /\ ret' = "true"
    /\ result' = <<>>
    /\ UNCHANGED <<memVars, diskVars, total_points, envVars>>

optimize ==
    /\ Idle
    /\ FlushFits(symbol_data)
    /\ \E relock \in RelockOutcomes :
        \E o \in OptimizeOutcomes(symbol_data, mem_total_points, Disk, relock) :
            /\ symbol_data' = o.symbol_data
            /\ mem_total_points' = o.mem_total_points
            /\ metadata' = o.metadata
            /\ files' = o.files
            /\ ret' = o.ret
            /\ op' = [name |-> "optimize"]
            /\ result' = <<>>
            /\ UNCHANGED <<total_points, envVars>>

EngineNext ==
    \/ write_point \/ write_batch \/ flush \/ read_range \/ engine_get_latest
    \/ engine_get_symbols \/ optimize \/ call_returns

SpecEngine == EngineInit /\ [][EngineNext]_vars

\* ------------------------------------------------------------------------
\* The engine over a file system that can fail: writes and flushes only
\* ------------------------------------------------------------------------
FaultyInit ==
    /\ symbol_data = <<>>
    /\ mem_total_points = 0
    /\ metadata = <<>>
    /\ files = <<>>
    /\ total_points = 0
    /\ op = IdleOp
    /\ ret = "true"
    /\ result = <<>>
    /\ io_faults = TRUE
    /\ acked = {}

FaultyNext == write_point \/ write_batch \/ flush \/ call_returns

SpecFlushIO == FaultyInit /\ [][FaultyNext]_vars

\* ------------------------------------------------------------------------
\* Construction over a directory that holds files
\* ------------------------------------------------------------------------
\* path.extension() without the dot: a path is the fields its stem has
\* between underscores, followed by the extension
Extension(path) == path[Len(path)]

\* the files load_existing_segments does not skip: extension .dat and an
\* underscore in the stem
DatFiles(fs) == {f \in DOMAIN fs : Extension(f) = "dat" /\ Len(f) >= 3}

\* std::stoll on a field of a file name: the number it starts with; a
\* field outside the domain starts with no digit and makes stoll throw
\* std::invalid_argument
Stoll == ("0" :> 0) @@ ("1" :> 1) @@ ("2" :> 2)

\* load_existing_segments meets a .dat file whose start or end field stoll
\* refuses: nothing catches the exception, the constructor throws
LoadThrows(fs) ==
    \E f \in DatFiles(fs) :
        f[2] \notin DOMAIN Stoll \/ f[Len(f) - 1] \notin DOMAIN Stoll

\* the SegmentInfo load_existing_segments builds from a file name
\* symbol_start_end.dat; num_points is the first word of the file
LoadedInfo(fs, path) ==
    [start_time |-> Stoll[path[2]],
     end_time |-> Stoll[path[Len(path) - 1]],
     num_points |-> fs[path].info.start_time,
     file_path |-> path,
     compressed |-> FALSE]

\* DiskLayer::Impl::load_existing_segments over the files in the order the
\* directory_iterator gives them: metadata[symbol][0] = info
RECURSIVE LoadExistingSegments(_, _, _)
LoadExistingSegments(md, fs, order) ==
    IF order = <<>> THEN md
    ELSE LoadExistingSegments(
             SetMetadata(md, Head(order)[1], 0, LoadedInfo(fs, Head(order))),
             fs, Tail(order))

\* the indexes a DiskLayer constructed over the directory fs can start with
LoadedIndexes(fs) ==
    {LoadExistingSegments(<<>>, fs, order) : order \in Orders(DatFiles(fs))}

\* ------------------------------------------------------------------------
\* The segment store dropped and constructed again over its directory
\* ------------------------------------------------------------------------
disk_reopen ==
    /\ Idle
    /\ op' = [name |-> "disk_reopen"]
    /\ result' = <<>>
    /\ UNCHANGED <<files, memVars, total_points, envVars>>
    /\ IF LoadThrows(files)
       THEN metadata' = <<>> /\ ret' = "exception"
       ELSE ret' = "true" /\ \E md \in LoadedIndexes(files) : metadata' = md

DiskRestartNext ==
    \/ disk_write_batch \/ disk_read_range \/ disk_reopen \/ call_returns

SpecDiskRestart == DiskInit /\ [][DiskRestartNext]_vars

\* ------------------------------------------------------------------------
\* The segment store constructed over a directory into which other
\* programs have put .dat files
\* ------------------------------------------------------------------------
\* the names of the files that appear: symbol_start_end.dat with fields
\* that are numbers or not, and a stem without underscore
ForeignPaths ==
    {<<sym, start, end, "dat">> : sym \in Symbols, start \in {"0", "x"}, end \in {"1", "x"}}
    \cup {<<sym, "dat">> : sym \in Symbols}

\* a file appears in the data directory while no call is in progress
foreign_file ==
    /\ Idle
    /\ Cardinality(DOMAIN files) < MaxSegments
    /\ \E path \in ForeignPaths \ DOMAIN files, first_word \in {0, 1} :
           files' = PutFile(files, path,
                            [info |-> [start_time |-> first_word], data |-> <<>>,
                             complete |-> TRUE])
    /\ UNCHANGED <<memVars, metadata, total_points, op, ret, result, envVars>>

\* a call returns to a caller that has a store: an exception of the
\* constructor leaves none
store_call_returns ==
    /\ ~(op.name = "disk_reopen" /\ ret = "exception")
    /\ call_returns

DiskForeignNext ==
    \/ foreign_file \/ disk_write_batch_one_value \/ disk_reopen
    \/ store_call_returns

SpecDiskForeign == DiskInit /\ [][DiskForeignNext]_vars

\* ------------------------------------------------------------------------
\* The engine dropped and constructed again over its directory:
\* ~StorageEngine is defaulted, the buffer goes with the object
\* ------------------------------------------------------------------------
engine_reopen ==
    /\ Idle
    /\ \E md \in LoadedIndexes(files) :
        /\ symbol_data' = <<>>
        /\ mem_total_points' = 0
        /\ total_points' = 0
        /\ metadata' = md
        /\ UNCHANGED files
        /\ op' = [name |-> "engine_reopen"]
        /\ ret' = "true"
        /\ result' = <<>>
        /\ UNCHANGED envVars

EngineRestartNext ==
    write_point \/ flush \/ engine_reopen \/ call_returns

SpecEngineRestart == EngineInit /\ [][EngineRestartNext]_vars

\* ------------------------------------------------------------------------
\* The round trip of one batch: write_batch to an empty engine, flush, then
\* a full-range read_range of one symbol.  op keeps the batch and the step.
\* ------------------------------------------------------------------------
RoundTripInit ==
    /\ symbol_data = <<>>
    /\ mem_total_points = 0
    /\ metadata = <<>>
    /\ files = <<>>
    /\ total_points = 0
    /\ op = IdleOp
    /\ ret = "true"
    /\ result = <<>>
    /\ io_faults = FALSE
    /\ acked = {}

round_trip_write_batch ==
    /\ Idle
    /\ \E points \in Batches :
        \E sorted \in SortedGroups(points) :
            /\ WriteBatch(points, sorted)
            /\ op' = [name |-> "round_trip", step |-> "write_batch",
                      points |-> points, symbol |-> ""]
            /\ result' = <<>>
            /\ UNCHANGED envVars

round_trip_flush ==
    /\ op.name = "round_trip"
    /\ op.step = "write_batch"
    /\ ret = "true"
    /\ Flush
    /\ op' = [op EXCEPT !.step = "flush"]
    /\ result' = <<>>
    /\ UNCHANGED <<total_points, envVars>>

round_trip_read_range ==
    /\ op.name = "round_trip"
    /\ op.step = "flush"
    /\ ret = "true"
    /\ \E sym \in Symbols :
        \E r \in EngineReadRange(symbol_data, Disk, sym, TimeMin, TimeMax) :
            /\ op' = [op EXCEPT !.step = "read_range", !.symbol = sym]
            /\ result' = r
            /\ ret' = "true"
            /\ UNCHANGED <<memVars, diskVars, total_points, envVars>>

RoundTripNext == round_trip_write_batch \/ round_trip_flush \/ round_trip_read_range

SpecRoundTrip == RoundTripInit /\ [][RoundTripNext]_vars

\* ------------------------------------------------------------------------
\* An engine constructed with EngineConfig.enable_compression = b, then
\* write_batch(points) and flush() on it.  The constructor hands the
\* DiskLayer the data directory and nothing else: the store runs with the
\* default DiskConfig whatever b is.
\* ------------------------------------------------------------------------
configured_write_flush ==
    /\ Idle
    /\ \E b \in BOOLEAN, points \in Batches \ {<<>>} :
        \E sorted \in SortedGroups(points) :
            LET sd == MemInsertBatch(symbol_data, sorted)
                n == mem_total_points + MemBatchNewPoints(symbol_data, sorted)
            IN  /\ FlushFits(sd)
                /\ \E f \in FlushOutcomes(sd, n, Disk) :
                       /\ symbol_data' = f.symbol_data
                       /\ mem_total_points' = f.mem_total_points
                       /\ metadata' = f.metadata
                       /\ files' = f.files
                       /\ ret' = f.ret
                /\ total_points' = total_points + Len(points)
                /\ op' = [name |-> "configured_write_flush",
                          enable_compression |-> b, points |-> points]
                /\ result' = <<>>
                /\ UNCHANGED envVars

SpecConfig == RoundTripInit /\ [][configured_write_flush]_vars

\* ------------------------------------------------------------------------
\* The engine called from several threads.  A step is what a call does
\* between two acquisitions of the engine's mutex; op, ret and result are
\* functions of the thread.  op[t] holds the call of thread t, where it
\* stands (pc), its argument (arg), its local vector (local) and, for a
\* read, the points that had been accepted when it began (expect).
\* ------------------------------------------------------------------------
Threads == {"t1", "t2"}

ThreadIdle == [name |-> "idle", pc |-> "idle", arg |-> <<>>, local |-> <<>>, expect |-> {}]

ConcInit ==
    /\ symbol_data = <<>>
    /\ mem_total_points = 0
    /\ metadata = <<>>
    /\ files = <<>>
    /\ total_points = 0
    /\ op = [t \in Threads |-> ThreadIdle]
    /\ ret = [t \in Threads |-> "true"]
    /\ result = [t \in Threads |-> <<>>]
    /\ io_faults = FALSE
    /\ acked = {}

\* the call of thread t returns v; a write_point that returns true has its
\* point accepted
Return(t, call, v) ==
    /\ op' = [op EXCEPT ![t] = ThreadIdle]
    /\ ret' = [ret EXCEPT ![t] = v]
    /\ acked' = IF call.name = "write_point" /\ v = "true"
                THEN acked \cup {call.arg} ELSE acked

\* write_point under the engine's mutex: the insert, needs_flush, the counter
WritePointLocked(t, point) ==
    LET call == [ThreadIdle EXCEPT !.name = "write_point", !.arg = point]
    IN  /\ op[t] = ThreadIdle
        /\ symbol_data' = MemInsert(symbol_data, point)
        /\ UNCHANGED <<diskVars, result, io_faults>>
        /\ IF InsertIsDuplicate(symbol_data, point)
           THEN /\ UNCHANGED <<mem_total_points, total_points>>
                /\ Return(t, call, "false")
           ELSE /\ total_points < MaxTotalPoints
                /\ total_points' = total_points + 1
                /\ mem_total_points' = mem_total_points + 1
                /\ IF NeedsFlush(mem_total_points + 1)
                   THEN /\ op' = [op EXCEPT ![t] = [call EXCEPT !.pc = "flush"]]
                        /\ UNCHANGED <<ret, acked>>
                   ELSE Return(t, call, "true")

write_point_locked ==
    \E t \in Threads, point \in ConcPoints : WritePointLocked(t, point)

\* flush as it would be if a thread inside a segment-store call kept the
\* engine's mutex
flush_snapshot_store_locked ==
    \E t \in Threads :
        /\ op[t].pc \in {"idle", "flush"}
        /\ \A u \in Threads : op[u].pc \notin {"disk_write", "disk"}
        /\ UNCHANGED <<memVars, diskVars, total_points, result, io_faults>>
        /\ \E symbols \in Orders(MemGetSymbols(symbol_data)) :
            LET call == IF op[t].pc = "idle"
                        THEN [ThreadIdle EXCEPT !.name = "flush"] ELSE op[t]
                points_to_flush == PointsToFlush(symbol_data, symbols)
            IN  IF points_to_flush = <<>>
                THEN Return(t, call, "true")
                ELSE /\ op' = [op EXCEPT ![t] = [call EXCEPT !.pc = "disk_write",
                                                             !.local = points_to_flush]]
                     /\ UNCHANGED <<ret, acked>>

\* flush under the engine's mutex: points_to_flush is taken from the buffer
flush_snapshot ==
    \E t \in Threads :
        /\ op[t].pc \in {"idle", "flush"}
        /\ UNCHANGED <<memVars, diskVars, total_points, result, io_faults>>
        /\ \E symbols \in Orders(MemGetSymbols(symbol_data)) :
            LET call == IF op[t].pc = "idle"
                        THEN [ThreadIdle EXCEPT !.name = "flush"] ELSE op[t]
                points_to_flush == PointsToFlush(symbol_data, symbols)
            IN  IF points_to_flush = <<>>
                THEN Return(t, call, "true")
                ELSE /\ op' = [op EXCEPT ![t] = [call EXCEPT !.pc = "disk_write",
                                                             !.local = points_to_flush]]
                     /\ UNCHANGED <<ret, acked>>

\* flush outside the mutex: disk_layer->write_batch(points_to_flush)
flush_disk_write ==
    \E t \in Threads :
        /\ op[t].pc = "disk_write"
        /\ SegmentsKept + Cardinality(BatchSymbols(op[t].local)) <= MaxSegments
        /\ \E sorted \in SortedGroups(op[t].local),
              order \in Orders(BatchSymbols(op[t].local)) :
            LET d == DiskWriteBatch(Disk, order, sorted, AllOk)
            IN  /\ metadata' = d.metadata
                /\ files' = d.files
        /\ op' = [op EXCEPT ![t].pc = "clear", ![t].local = <<>>]
        /\ UNCHANGED <<memVars, total_points, ret, result, envVars>>

\* flush under the mutex again: clear_cache, and the call returns
flush_clear ==
    \E t \in Threads :
        /\ op[t].pc = "clear"
        /\ symbol_data' = MemClearCache(symbol_data)
        /\ mem_total_points' = 0
        /\ Return(t, op[t], "true")
        /\ UNCHANGED <<diskVars, total_points, result, io_faults>>

\* read_range over the full range under the shared mutex: memory_points
read_range_memory ==
    \E t \in Threads, sym \in Symbols :
        /\ op[t] = ThreadIdle
        /\ op' = [op EXCEPT ![t] =
                     [name |-> "read_range", pc |-> "disk", arg |-> sym,
                      local |-> MemGetRange(symbol_data, sym, TimeMin, TimeMax),
                      expect |-> {p \in acked : p.symbol = sym}]]
        /\ UNCHANGED <<memVars, diskVars, total_points, ret, result, envVars>>

\* read_range outside the mutex: disk_points, the merge and the sort
read_range_disk ==
    \E t \in Threads :
        /\ op[t].pc = "disk"
        /\ \E disk_points \in RangeQuery(Disk, op[t].arg, TimeMin, TimeMax) :
            \E r \in SortByTs(op[t].local \o disk_points) :
                result' = [result EXCEPT ![t] = r]
        /\ op' = [op EXCEPT ![t].pc = "done", ![t].local = <<>>]
        /\ UNCHANGED <<memVars, diskVars, total_points, ret, envVars>>

\* the caller takes the vector read_range returned
read_range_returns ==
    \E t \in Threads :
        /\ op[t].pc = "done"
        /\ op' = [op EXCEPT ![t] = ThreadIdle]
        /\ result' = [result EXCEPT ![t] = <<>>]
        /\ UNCHANGED <<memVars, diskVars, total_points, ret, envVars>>

ConcNext ==
    \/ write_point_locked \/ flush_snapshot \/ flush_disk_write \/ flush_clear
    \/ read_range_memory \/ read_range_disk \/ read_range_returns

SpecConc == ConcInit /\ [][ConcNext]_vars

\* ------------------------------------------------------------------------
\* DiskLayer::write_batch called from several threads (two flushes that run
\* side by side).  op[t].arg holds the symbols whose group is still to be
\* written, op[t].local the sorted groups and the segment id of the group
\* in hand.  The file is taken to be written in one piece.
\* ------------------------------------------------------------------------
disk_write_batch_begins ==
    \E t \in Threads, points \in Batches \ {<<>>} :
        /\ op[t] = ThreadIdle
        /\ \A i \in 1..Len(points) : points[i] \in ConcPoints
        /\ SegmentsKept + Len(op["t1"].arg) + Len(op["t2"].arg)
               + Cardinality(BatchSymbols(points)) <= MaxSegments
        /\ \E sorted \in SortedGroups(points), order \in Orders(BatchSymbols(points)) :
               op' = [op EXCEPT ![t] =
                         [name |-> "disk_write_batch", pc |-> "next_segment_id",
                          arg |-> order, local |-> [sorted |-> sorted, id |-> 0],
                          expect |-> {}]]
        /\ UNCHANGED <<memVars, diskVars, total_points, ret, result, envVars>>

\* next_segment_id is read from the index under a shared lock, which is
\* released before write_segment is called
disk_next_segment_id ==
    \E t \in Threads :
        /\ op[t].pc = "next_segment_id"
        /\ op' = [op EXCEPT ![t].pc = "write_file",
                            ![t].local.id = NextSegmentId(metadata, Head(op[t].arg))]
        /\ UNCHANGED <<memVars, diskVars, total_points, ret, result, envVars>>

\* write_segment up to out.close(): the file is created or truncated and
\* written, under no lock
disk_write_file ==
    \E t \in Threads :
        /\ op[t].pc = "write_file"
        /\ LET symbol == Head(op[t].arg)
           IN  files' = WriteSegment(Disk, symbol, op[t].local.sorted[symbol],
                                     op[t].local.id, "ok").files
        /\ op' = [op EXCEPT ![t].pc = "update_metadata"]
        /\ UNCHANGED <<memVars, metadata, total_points, ret, result, envVars>>

\* the end of write_segment: metadata[symbol][segment_id] = info under the
\* unique lock; then the next group, or write_batch returns true
disk_update_metadata ==
    \E t \in Threads :
        /\ op[t].pc = "update_metadata"
        /\ LET symbol == Head(op[t].arg)
           IN  metadata' = WriteSegment(Disk, symbol, op[t].local.sorted[symbol],
                                        op[t].local.id, "ok").metadata
        /\ IF Tail(op[t].arg) = <<>>
           THEN Return(t, op[t], "true")
           ELSE /\ op' = [op EXCEPT ![t].pc = "next_segment_id",
                                    ![t].arg = Tail(op[t].arg)]
                /\ UNCHANGED <<ret, acked>>
        /\ UNCHANGED <<memVars, files, total_points, result, io_faults>>

DiskConcNext ==
    \/ disk_write_batch_begins \/ disk_next_segment_id
    \/ disk_write_file \/ disk_update_metadata

SpecDiskConc == ConcInit /\ [][DiskConcNext]_vars

\* ------------------------------------------------------------------------
\* The threads as the concurrency tests run them: each thread writes to a
\* symbol of its own, and never the same timestamp twice
\* ------------------------------------------------------------------------
own_write_point ==
    \E t \in Threads, point \in ConcPoints :
        LET written == acked \cup {op[u].arg : u \in {v \in Threads : op[v].name = "write_point"}}
        IN  /\ point.symbol = (IF t = "t1" THEN "A" ELSE "B")
            /\ point \notin written
            /\ WritePointLocked(t, point)

OwnSymbolNext ==
    \/ own_write_point \/ flush_snapshot \/ flush_disk_write \/ flush_clear
    \/ read_range_memory \/ read_range_disk \/ read_range_returns

SpecConcOwnSymbol == ConcInit /\ [][OwnSymbolNext]_vars

\* ------------------------------------------------------------------------
\* The threads and the segment store's shared_mutex.  The position of a
\* thread tells what it holds: a reader at "range_query" holds the mutex
\* shared, a flush at "store_lock" has called lock() in write_segment and
\* waits for the readers to leave.  read_segment locks the mutex shared
\* again on the thread that holds it shared: where the mutex lets readers
\* pass a waiting writer the call goes through, where it queues them
\* behind the writer the thread waits for itself.
\* ------------------------------------------------------------------------
\* write_segment has written its file and calls std::unique_lock lock(mutex)
store_lock_waits ==
    \E t \in Threads :
        /\ op[t].pc = "disk_write"
        /\ op' = [op EXCEPT ![t].pc = "store_lock"]
        /\ UNCHANGED <<memVars, diskVars, total_points, ret, result, envVars>>

\* the unique lock is granted once no reader holds the mutex: the segments
\* of the flush are in the index (total_points bounds their number)
flush_disk_write_locked ==
    \E t \in Threads :
        /\ op[t].pc = "store_lock"
        /\ \A r \in Threads : op[r].pc \notin {"range_query", "blocked"}
        /\ \E sorted \in SortedGroups(op[t].local),
              order \in Orders(BatchSymbols(op[t].local)) :
            LET d == DiskWriteBatch(Disk, order, sorted, AllOk)
            IN  /\ metadata' = d.metadata
                /\ files' = d.files
        /\ op' = [op EXCEPT ![t].pc = "clear", ![t].local = <<>>]
        /\ UNCHANGED <<memVars, total_points, ret, result, envVars>>

\* range_query takes the mutex shared and collects relevant_segments; with
\* none it returns at once
range_query_locks ==
    \E t \in Threads :
        /\ op[t].pc = "disk"
        /\ IF RelevantSegments(metadata, op[t].arg, TimeMin, TimeMax) = {}
           THEN /\ op' = [op EXCEPT ![t].pc = "done", ![t].local = <<>>]
                /\ \E r \in SortByTs(op[t].local) : result' = [result EXCEPT ![t] = r]
           ELSE /\ op' = [op EXCEPT ![t].pc = "range_query"]
                /\ UNCHANGED result
        /\ UNCHANGED <<memVars, diskVars, total_points, ret, envVars>>

\* read_segment takes the mutex shared a second time
read_segment_locks ==
    \E t \in Threads :
        /\ op[t].pc = "range_query"
        /\ \/ /\ \E disk_points \in RangeQuery(Disk, op[t].arg, TimeMin, TimeMax) :
                    \E r \in SortByTs(op[t].local \o disk_points) :
                        result' = [result EXCEPT ![t] = r]
              /\ op' = [op EXCEPT ![t].pc = "done", ![t].local = <<>>]
              /\ UNCHANGED ret
           \/ /\ \E w \in Threads : op[w].pc = "store_lock"
              /\ op' = [op EXCEPT ![t].pc = "blocked"]
              /\ ret' = [ret EXCEPT ![t] = "blocked"]
              /\ UNCHANGED result
        /\ UNCHANGED <<memVars, diskVars, total_points, envVars>>

LockNext ==
    \/ own_write_point \/ flush_snapshot \/ store_lock_waits
    \/ flush_disk_write_locked \/ flush_clear
    \/ read_range_memory \/ range_query_locks \/ read_segment_locks
    \/ read_range_returns

SpecLocks == ConcInit /\ [][LockNext]_vars

\* ------------------------------------------------------------------------
\* Writes and flushes of the engine from several threads, write_batch
\* included (an empty batch returns at once and is left out).  A batch may
\* begin while total_points is below the model's cap.
\* ------------------------------------------------------------------------
\* write_batch under the engine's mutex: insert_batch, needs_flush, the counter
write_batch_locked ==
    \E t \in Threads, points \in Batches \ {<<>>} :
        /\ op[t] = ThreadIdle
        /\ \A i \in 1..Len(points) :
               points[i] \in ConcPoints /\ points[i].timestamp = TimeMax
        /\ total_points < MaxTotalPoints
        /\ \E sorted \in SortedGroups(points) :
            LET call == [ThreadIdle EXCEPT !.name = "write_batch"]
                n == mem_total_points + MemBatchNewPoints(symbol_data, sorted)
            IN  /\ symbol_data' = MemInsertBatch(symbol_data, sorted)
                /\ mem_total_points' = n
                /\ total_points' = total_points + Len(points)
                /\ IF NeedsFlush(n)
                   THEN /\ op' = [op EXCEPT ![t] = [call EXCEPT !.pc = "flush"]]
                        /\ UNCHANGED <<ret, acked>>
                   ELSE Return(t, call, "true")
        /\ UNCHANGED <<diskVars, result, io_faults>>

ConcWritesNext ==
    \/ write_point_locked \/ write_batch_locked
    \/ flush_snapshot \/ flush_disk_write \/ flush_clear

SpecConcWrites == ConcInit /\ [][ConcWritesNext]_vars

\* ------------------------------------------------------------------------
\* The MemoryLayer called from several threads.  op[t].pc is the lock the
\* call of thread t stands at: "global" (it is about to lock global_mutex
\* in get_or_create_symbol_data and holds no lock), "symbol_lock" (it has
\* let go of global_mutex and asks for the mutex of the symbol Head(arg)),
\* "locked" (it holds that mutex and no other), "clearing" (clear_cache
\* holds global_mutex; arg is the symbols still to be cleared), "reading"
\* (get_range holds global_mutex shared and asks for the symbol's).  What a
\* call does to points and to the symbol's counter under the symbol's
\* mutex is seen by no other thread before the mutex is released, so it is
\* one step with the update of total_points_.
\* ------------------------------------------------------------------------
mem_insert_called ==
    \E t \in Threads, point \in ConcPoints :
        /\ op[t] = ThreadIdle
        /\ point.timestamp <= TimeMin + 1
        /\ op' = [op EXCEPT ![t] = [ThreadIdle EXCEPT !.name = "insert", !.pc = "global",
                                                      !.arg = <<point.symbol>>,
                                                      !.local = <<point>>]]
        /\ UNCHANGED <<memVars, diskVars, total_points, ret, result, envVars>>

mem_insert_batch_called ==
    \E t \in Threads, points \in Batches \ {<<>>} :
        /\ op[t] = ThreadIdle
        /\ \A i \in 1..Len(points) :
               points[i] \in ConcPoints /\ points[i].timestamp = TimeMin + 1
        /\ \E order \in Orders(BatchSymbols(points)) :
               op' = [op EXCEPT ![t] = [ThreadIdle EXCEPT !.name = "insert_batch",
                                                         !.pc = "global",
                                                         !.arg = order,
                                                         !.local = points]]
        /\ UNCHANGED <<memVars, diskVars, total_points, ret, result, envVars>>

\* get_or_create_symbol_data: global_mutex is taken (shared, then exclusive
\* if the symbol is new) and released on return
mem_get_or_create ==
    \E t \in Threads :
        /\ op[t].pc = "global"
        /\ \A u \in Threads : op[u].pc /= "clearing"
        /\ Head(op[t].arg) \notin DOMAIN symbol_data =>
               \A u \in Threads : op[u].pc /= "reading"
        /\ symbol_data' = get_or_create_symbol_data(symbol_data, Head(op[t].arg))
        /\ op' = [op EXCEPT ![t].pc = "symbol_lock"]
        /\ UNCHANGED <<mem_total_points, diskVars, total_points, ret, result, envVars>>

\* std::unique_lock lock(symbol_data->mutex) of insert and insert_batch
mem_symbol_lock ==
    \E t \in Threads :
        /\ op[t].pc = "symbol_lock"
        /\ \A u \in Threads : op[u].pc = "locked" => Head(op[u].arg) /= Head(op[t].arg)
        /\ op' = [op EXCEPT ![t].pc = "locked"]
        /\ UNCHANGED <<memVars, diskVars, total_points, ret, result, envVars>>

\* insert as it would be if it took global_mutex again while it holds the
\* symbol's mutex
mem_insert_locked_takes_global ==
    \E t \in Threads :
        /\ op[t].pc = "locked"
        /\ op[t].name = "insert"
        /\ \A u \in Threads : op[u].pc /= "clearing"
        /\ LET point == op[t].local[1]
           IN  /\ symbol_data' = MemInsert(symbol_data, point)
               /\ IF InsertIsDuplicate(symbol_data, point)
                  THEN /\ UNCHANGED mem_total_points
                       /\ Return(t, op[t], "false")
                  ELSE /\ mem_total_points' = mem_total_points + 1
                       /\ Return(t, op[t], "true")
        /\ UNCHANGED <<diskVars, total_points, result, io_faults>>

\* insert under the symbol's mutex, to its return
mem_insert_locked ==
    \E t \in Threads :
        /\ op[t].pc = "locked"
        /\ op[t].name = "insert"
        /\ LET point == op[t].local[1]
           IN  /\ symbol_data' = MemInsert(symbol_data, point)
               /\ IF InsertIsDuplicate(symbol_data, point)
                  THEN /\ UNCHANGED mem_total_points
                       /\ Return(t, op[t], "false")
                  ELSE /\ mem_total_points' = mem_total_points + 1
                       /\ Return(t, op[t], "true")
        /\ UNCHANGED <<diskVars, total_points, result, io_faults>>

\* one turn of insert_batch's loop under the symbol's mutex: the group is
\* sorted and merged, the counters are raised, the mutex is released
mem_insert_batch_locked ==
    \E t \in Threads :
        /\ op[t].pc = "locked"
        /\ op[t].name = "insert_batch"
        /\ LET symbol == Head(op[t].arg)
               cur == symbol_data[symbol]
           IN  \E sorted_points \in SortByTs(Group(op[t].local, symbol)) :
                   LET merged == MergedPoints(cur.points, sorted_points)
                       new_points == Len(merged) - Len(cur.points)
                   IN  /\ symbol_data' =
                              [symbol_data EXCEPT ![symbol] =
                                  [points |-> merged,
                                   total_points |-> cur.total_points + new_points]]
                       /\ mem_total_points' = mem_total_points + new_points
        /\ IF Tail(op[t].arg) = <<>>
           THEN Return(t, op[t], "true")
           ELSE /\ op' = [op EXCEPT ![t].pc = "global", ![t].arg = Tail(op[t].arg)]
                /\ UNCHANGED <<ret, acked>>
        /\ UNCHANGED <<diskVars, total_points, result, io_faults>>

\* clear_cache takes global_mutex; the loop will visit the symbols of the
\* map in the order of the unordered_map
mem_clear_cache_called ==
    \E t \in Threads :
        /\ op[t] = ThreadIdle
        /\ \A u \in Threads : op[u].pc \notin {"clearing", "reading"}
        /\ \E order \in Orders(DOMAIN symbol_data) :
               op' = [op EXCEPT ![t] = [ThreadIdle EXCEPT !.name = "clear_cache",
                                                         !.pc = "clearing",
                                                         !.arg = order]]
        /\ UNCHANGED <<memVars, diskVars, total_points, ret, result, envVars>>

\* one turn of clear_cache's loop: the symbol's mutex is taken, its points
\* and counter are cleared, the mutex is released
mem_clear_symbol ==
    \E t \in Threads :
        /\ op[t].pc = "clearing"
        /\ op[t].arg /= <<>>
        /\ \A u \in Threads : op[u].pc = "locked" => Head(op[u].arg) /= Head(op[t].arg)
        /\ symbol_data' = [symbol_data EXCEPT ![Head(op[t].arg)] = EmptySymbolData]
        /\ op' = [op EXCEPT ![t].arg = Tail(op[t].arg)]
        /\ UNCHANGED <<mem_total_points, diskVars, total_points, ret, result, envVars>>

\* the end of clear_cache: total_points_ = 0, global_mutex is released
mem_clear_counts ==
    \E t \in Threads :
        /\ op[t].pc = "clearing"
        /\ op[t].arg = <<>>
        /\ mem_total_points' = 0
        /\ Return(t, op[t], "true")
        /\ UNCHANGED <<symbol_data, diskVars, total_points, result, io_faults>>

\* get_range over the full range takes global_mutex shared and finds the
\* symbol; an unknown symbol ends the call
mem_get_range_called ==
    \E t \in Threads, sym \in Symbols :
        /\ op[t] = ThreadIdle
        /\ \A u \in Threads : op[u].pc /= "clearing"
        /\ IF sym \in DOMAIN symbol_data
           THEN /\ op' = [op EXCEPT ![t] = [ThreadIdle EXCEPT !.name = "get_range",
                                                             !.pc = "reading",
                                                             !.arg = <<sym>>]]
                /\ UNCHANGED <<ret, result, acked>>
           ELSE /\ Return(t, [ThreadIdle EXCEPT !.name = "get_range"], "true")
                /\ UNCHANGED result
        /\ UNCHANGED <<memVars, diskVars, total_points, io_faults>>

\* get_range holding global_mutex takes the symbol's mutex shared, reads
\* and returns; both locks are released (the vector it returns is not kept)
mem_get_range_locked ==
    \E t \in Threads :
        /\ op[t].pc = "reading"
        /\ \A u \in Threads : op[u].pc = "locked" => Head(op[u].arg) /= Head(op[t].arg)
        /\ Return(t, op[t], "true")
        /\ UNCHANGED <<memVars, diskVars, total_points, result, io_faults>>

MemConcNext ==
    \/ mem_insert_called \/ mem_insert_batch_called \/ mem_get_or_create
    \/ mem_symbol_lock \/ mem_insert_locked \/ mem_insert_batch_locked
    \/ mem_clear_cache_called \/ mem_clear_symbol \/ mem_clear_counts
    \/ mem_get_range_called \/ mem_get_range_locked

SpecMemConc == ConcInit /\ [][MemConcNext]_vars

\* ------------------------------------------------------------------------
\* utils::LRUCache, the cache a SymbolData is declared with.  symbol_data
\* holds the object: max_size_, head_, tail_ and cache_, the map from a
\* key to its Node [value, prev, next]; a Node* is the key of the node and
\* "nullptr" is the null pointer.  result holds the keys of the cache in
\* the order in which the caller touched them last, the latest first; op
\* holds the last call, the optional it returned and the key it evicted.
\* ------------------------------------------------------------------------
\* move_to_front as it would be if it left the list as it is
move_to_front_skipped(c, node) == c

\* LRUCache::move_to_front on the object c
move_to_front(c, node) ==
    IF node = c.head_ THEN c
    ELSE LET n == c.cache_[node]
             unlinked == [c EXCEPT !.cache_[n.prev].next = n.next]
             closed == IF n.next /= "nullptr"
                       THEN [unlinked EXCEPT !.cache_[n.next].prev = n.prev]
                       ELSE [unlinked EXCEPT !.tail_ = n.prev]
             front == [closed EXCEPT !.cache_[node].next = c.head_,
                                     !.cache_[node].prev = "nullptr"]
         IN  [front EXCEPT !.cache_[c.head_].prev = node, !.head_ = node]

LruInit ==
    /\ \E max_size \in 1..MaxCacheSize :
           symbol_data = [max_size_ |-> max_size, head_ |-> "nullptr",
                          tail_ |-> "nullptr", cache_ |-> <<>>]
    /\ mem_total_points = 0
    /\ metadata = <<>>
    /\ files = <<>>
    /\ total_points = 0
    /\ op = IdleOp
    /\ ret = "true"
    /\ result = <<>>
    /\ io_faults = FALSE
    /\ acked = {}

\* LRUCache::get
get ==
    \E key \in CacheKeys :
        LET c == symbol_data
        IN  /\ IF key \notin DOMAIN c.cache_
               THEN /\ op' = [name |-> "get", key |-> key, value |-> <<>>,
                              evicted |-> "nullptr"]
                    /\ UNCHANGED <<symbol_data, result>>
               ELSE /\ symbol_data' = move_to_front(c, key)
                    /\ op' = [name |-> "get", key |-> key,
                              value |-> <<c.cache_[key].value>>, evicted |-> "nullptr"]
                    /\ result' = <<key>> \o SelectSeq(result, LAMBDA k : k /= key)
            /\ UNCHANGED <<mem_total_points, diskVars, total_points, ret, envVars>>

\* LRUCache::put
put ==
    \E key \in CacheKeys, value \in CacheValues :
        LET c == symbol_data
            node == [value |-> value, prev |-> "nullptr",
                     next |-> IF c.head_ = "nullptr" THEN "nullptr" ELSE c.head_]
            linked == IF c.head_ = "nullptr"
                      THEN [c EXCEPT !.head_ = key, !.tail_ = key]
                      ELSE [c EXCEPT !.cache_[c.head_].prev = key, !.head_ = key]
            stored == [linked EXCEPT !.cache_ = (key :> node) @@ linked.cache_]
            old_key == stored.tail_
            new_tail == stored.cache_[old_key].prev
            cut == [stored EXCEPT !.cache_[new_tail].next = "nullptr"]
            erased == [cut EXCEPT
                          !.cache_ = [k \in DOMAIN cut.cache_ \ {old_key} |-> cut.cache_[k]],
                          !.tail_ = new_tail]
            touched == <<key>> \o SelectSeq(result, LAMBDA k : k /= key)
        IN  /\ IF key \in DOMAIN c.cache_
               THEN /\ symbol_data' =
                           move_to_front([c EXCEPT !.cache_[key].value = value], key)
                    /\ op' = [name |-> "put", key |-> key, value |-> <<value>>,
                              evicted |-> "nullptr"]
               ELSE IF Cardinality(DOMAIN stored.cache_) > c.max_size_
               THEN /\ symbol_data' = erased
                    /\ op' = [name |-> "put", key |-> key, value |-> <<value>>,
                              evicted |-> old_key]
               ELSE /\ symbol_data' = stored
                    /\ op' = [name |-> "put", key |-> key, value |-> <<value>>,
                              evicted |-> "nullptr"]
            /\ result' = SelectSeq(touched, LAMBDA k : k \in DOMAIN symbol_data'.cache_)
            /\ UNCHANGED <<mem_total_points, diskVars, total_points, ret, envVars>>

\* LRUCache::clear
clear ==
    /\ symbol_data' = [symbol_data EXCEPT !.cache_ = <<>>, !.head_ = "nullptr",
                                          !.tail_ = "nullptr"]
    /\ op' = [name |-> "clear", key |-> "nullptr", value |-> <<>>, evicted |-> "nullptr"]
    /\ result' = <<>>
    /\ UNCHANGED <<mem_total_points, diskVars, total_points, ret, envVars>>

LruNext == get \/ put \/ clear

SpecLru == LruInit /\ [][LruNext]_vars

\* ------------------------------------------------------------------------
\* Properties of the memory buffer
\* ------------------------------------------------------------------------
PointsOf(sd, sym) == IF sym \in DOMAIN sd THEN sd[sym].points ELSE <<>>

\* C1: after any sequence of insert and insert_batch calls, the full-range
\* get_range of every symbol is strictly increasing in timestamp.
C1_MemoryStrictlyIncreasing ==
    \A sym \in Symbols :
        IsStrictlyIncreasing(MemGetRange(symbol_data, sym, TimeMin, TimeMax))

\* an unsorted batch with a repeated timestamp was merged into a sequence
\* that already held a point
C1_Witness ==
    /\ op.name = "insert_batch"
    /\ Len(op.points) = 2
    /\ op.points[1].symbol = op.points[2].symbol
    /\ op.points[1].timestamp > op.points[2].timestamp
    /\ Len(PointsOf(symbol_data, op.points[1].symbol)) = 2
    /\ \E p \in Range(PointsOf(symbol_data, op.points[1].symbol)) :
           p.timestamp = op.points[1].timestamp /\ p.value /= op.points[1].value

\* C2: for start <= end, get_range returns exactly the points of the symbol
\* with start <= timestamp <= end, both bounds inclusive.
C2_GetRangeExact ==
    (op.name = "get_range" /\ op.start <= op.end) =>
        LET held == Range(PointsOf(symbol_data, op.symbol))
            inside == {p \in held : op.start <= p.timestamp /\ p.timestamp <= op.end}
        IN  /\ Range(result) = inside
            /\ Len(result) = Cardinality(inside)

\* a range whose end is the timestamp of a returned point, with another
\* point of the symbol left out
C2_Witness ==
    /\ op.name = "get_range"
    /\ op.start <= op.end
    /\ Len(PointsOf(symbol_data, op.symbol)) = 2
    /\ Len(result) = 1
    /\ result[1].timestamp = op.end

\* C3: insert returns false on a timestamp the sequence already holds and
\* then changes neither the sequences nor the counter; otherwise it returns
\* true and the sequence gains exactly that point.
C3_InsertDuplicate ==
    [][op'.name = "insert" =>
        LET p == op'.point
            before == PointsOf(symbol_data, p.symbol)
            after == PointsOf(symbol_data', p.symbol)
        IN  IF \E q \in Range(before) : q.timestamp = p.timestamp
            THEN /\ ret' = "false"
                 /\ symbol_data' = symbol_data
                 /\ mem_total_points' = mem_total_points
            ELSE /\ ret' = "true"
                 /\ Range(after) = Range(before) \cup {p}
                 /\ Len(after) = Len(before) + 1
                 /\ mem_total_points' = mem_total_points + 1
                 /\ \A s \in Symbols \ {p.symbol} :
                        PointsOf(symbol_data', s) = PointsOf(symbol_data, s)
    ]_vars

\* an insert was refused although it carried another value than the one stored
C3_Witness ==
    /\ op.name = "insert"
    /\ ret = "false"
    /\ \E q \in Range(PointsOf(symbol_data, op.point.symbol)) :
           q.timestamp = op.point.timestamp /\ q.value /= op.point.value

\* ------------------------------------------------------------------------
\* Properties of the engine and of the segment store
\* ------------------------------------------------------------------------
\* the points the segments of a symbol hold
DiskPoints(d, symbol) ==
    Range(ReadSegments(d, symbol, SegmentIds(d.metadata, symbol)))

\* the points stored for a symbol, in the buffer or in a segment
StoredPoints(sd, d, symbol) == Range(PointsOf(sd, symbol)) \cup DiskPoints(d, symbol)

\* C4: a batch written to an empty engine and flushed is read back, for
\* each symbol, as the batch's points of that symbol with one point for
\* each timestamp, ascending, symbol and timestamp kept.
C4_RoundTrip ==
    (op.name = "round_trip" /\ op.step = "read_range") =>
        LET batch == Group(op.points, op.symbol)
        IN  /\ IsStrictlyIncreasing(result)
            /\ {result[i].timestamp : i \in DOMAIN result}
                   = {p.timestamp : p \in Range(batch)}
            /\ Range(result) \subseteq Range(batch)

\* a read_range that returned holds every stored point of its closed range
C5_Inclusive ==
    (op.name = "read_range" /\ ret = "true" /\ op.start <= op.end) =>
        \A p \in StoredPoints(symbol_data, Disk, op.symbol) :
            (op.start <= p.timestamp /\ p.timestamp <= op.end) => p \in Range(result)

\* a flush that succeeds changes what no read_range can return
C5_SameAcrossFlush ==
    (op'.name = "flush" /\ ret' = "true") =>
        \A sym \in Symbols, start \in Timestamps, end \in Timestamps :
            start <= end =>
                EngineReadRange(symbol_data', Disk', sym, start, end)
                    = EngineReadRange(symbol_data, Disk, sym, start, end)

\* C5: read_range returns every stored point of the symbol with
\* start <= timestamp <= end, a point at end included, from the buffer and
\* from the segments alike, so that a flush changes the result of no
\* read_range.
C5_ReadRangeInclusive == [](C5_Inclusive) /\ [][C5_SameAcrossFlush]_vars

\* C6: with writes and flushes running on several threads and no I/O
\* failure, a full-range read_range returns every point of its symbol whose
\* write had returned true when the read began.  (A point at the very end
\* of the range is left aside here: the store's range query is half-open.)
C6_NoAcceptedPointLost ==
    \A t \in Threads :
        (op[t].name = "read_range" /\ op[t].pc = "done") =>
            {p \in op[t].expect : p.timestamp < TimeMax} \subseteq Range(result[t])

\* a write into a segment file failed in the step: write_segment threw, or
\* it left a file that is not whole
SegmentWriteFailed ==
    \/ ret' = "exception"
    \/ \E f \in DOMAIN files' \ DOMAIN files : ~files'[f].complete

\* C7: when the segment write of a flush fails, flush reports the failure
\* to its caller and the buffer holds the points it held before the flush.
C7_FlushFailureKeepsBuffer ==
    [][(op'.name = "flush" /\ SegmentWriteFailed) =>
           /\ ret' \in {"false", "exception"}
           /\ \A sym \in Symbols :
                  PointsOf(symbol_data', sym) = PointsOf(symbol_data, sym)
           /\ mem_total_points' = mem_total_points
    ]_vars

\* C8: after optimize() has returned, no full-range read_range holds two
\* points of one timestamp, and another optimize() leaves the multiset of
\* points of every symbol's segments as it is.
C8_OptimizeDeduplicates ==
    (op.name = "optimize" /\ ret = "true") =>
        /\ \A sym \in Symbols :
               \A r \in EngineReadRange(symbol_data, Disk, sym, TimeMin, TimeMax) :
                   IsStrictlyIncreasing(r)
        /\ \A relock \in RelockOutcomes :
               \A o \in OptimizeOutcomes(symbol_data, mem_total_points, Disk, relock) :
                   o.ret = "true" =>
                       \A sym \in Symbols :
                           SortedAllPoints(o, sym) = SortedAllPoints(Disk, sym)

\* the value last written for (symbol, ts): the buffer's if it holds the
\* timestamp, else the one of the segment with the greatest id that does
MostRecentValue(sd, d, symbol, ts) ==
    IF \E p \in Range(PointsOf(sd, symbol)) : p.timestamp = ts
    THEN (CHOOSE p \in Range(PointsOf(sd, symbol)) : p.timestamp = ts).value
    ELSE LET ids == {id \in SegmentIds(d.metadata, symbol) :
                        \E p \in Range(ReadSegment(d, symbol, id)) : p.timestamp = ts}
             last == CHOOSE m \in ids : \A id \in ids : id <= m
         IN  (CHOOSE p \in Range(ReadSegment(d, symbol, last)) : p.timestamp = ts).value

\* C9: of the points of one (symbol, timestamp) written with different
\* values, the one optimize() leaves is single and carries the value
\* written last.
C9_SurvivorIsMostRecent ==
    [][(op'.name = "optimize" /\ ret' = "true") =>
           \A sym \in Symbols, ts \in Timestamps :
               LET before == {p \in StoredPoints(symbol_data, Disk, sym) : p.timestamp = ts}
                   after == SelectSeq(
                                ReadSegments(Disk', sym, SegmentIds(metadata', sym)),
                                LAMBDA p : p.timestamp = ts)
               IN  Cardinality(before) > 1 =>
                       /\ Len(after) = 1
                       /\ after[1].value = MostRecentValue(symbol_data, Disk, sym, ts)
    ]_vars

\* C10: after compact_segments(symbol) a read_range over the whole range
\* is strictly increasing in timestamp and holds one point for each
\* timestamp of the symbol's segments that the range reaches.
C10_CompactSegmentsDeduplicates ==
    (op.name = "compact_segments" /\ ret = "true") =>
        \A r \in RangeQuery(Disk, op.symbol, TimeMin, TimeMax) :
            /\ IsStrictlyIncreasing(r)
            /\ {r[i].timestamp : i \in DOMAIN r}
                   = {p.timestamp : p \in DiskPoints(Disk, op.symbol)} \ {TimeMax}

\* C11: a store constructed over the directory of a previous instance
\* answers every read_range as that instance did.
C11_RecoveryKeepsReads ==
    [][op'.name = "disk_reopen" =>
           \A sym \in Symbols, start \in Timestamps, end \in Timestamps :
               RangeQuery(Disk', sym, start, end) = RangeQuery(Disk, sym, start, end)
    ]_vars

\* C12: a point written to an engine is read back from a new engine
\* constructed over the same directory once the first is dropped, flushed
\* or not.  (A point at the very end of the range is left aside.)
C12_WritesSurviveReopen ==
    [][op'.name = "engine_reopen" =>
           \A sym \in Symbols :
               \A p \in StoredPoints(symbol_data, Disk, sym) :
                   p.timestamp < TimeMax =>
                       \A r \in EngineReadRange(symbol_data', Disk', sym, TimeMin, TimeMax) :
                           p \in Range(r)
    ]_vars

\* C13: get_latest returns the point of greatest timestamp among all the
\* points stored for the symbol, in the buffer or in the segments, and
\* nothing only if neither holds a point for the symbol.  (Points at the
\* very end of the time range, which the full-range read of the segments
\* does not reach, are left aside.)
C13_GetLatestIsGreatest ==
    (op.name = "engine_get_latest" /\ ret = "true") =>
        LET all == StoredPoints(symbol_data, Disk, op.symbol)
            stored == {p \in all : p.timestamp < TimeMax}
        IN  /\ all = {} => result = NoPoint
            /\ stored # {} =>
                 /\ result # NoPoint
                 /\ result[1] \in all
                 /\ \A p \in stored : p.timestamp <= result[1].timestamp

\* C14: write_point of a point whose symbol and timestamp are already in
\* the buffer returns false, does not count the point in total_points,
\* triggers no flush and leaves the buffer and the segments as they were.
C14_DuplicateWriteRefused ==
    [][(op'.name = "write_point" /\ InsertIsDuplicate(symbol_data, op'.point)) =>
           /\ ret' = "false"
           /\ UNCHANGED <<symbol_data, mem_total_points, metadata, files, total_points>>
    ]_vars

\* a write_point refused as a duplicate, with a point of another value
C14_Witness ==
    /\ op.name = "write_point"
    /\ ret = "false"
    /\ \E p \in Range(PointsOf(symbol_data, op.point.symbol)) :
           p.timestamp = op.point.timestamp /\ p.value # op.point.value

\* C15: after a successful insert, write_point and write_batch flush if and
\* only if the buffer then holds more than max_memory_points points; a
\* write that brings it to exactly max_memory_points does not flush.
C15_FlushOnlyAboveThreshold ==
    [][LET inserted ==
               \/ op'.name = "write_point" /\ ~InsertIsDuplicate(symbol_data, op'.point)
               \/ op'.name = "write_batch" /\ op'.points # <<>>
           size ==
               IF op'.name = "write_point" THEN mem_total_points + 1
               ELSE mem_total_points
                    + MemBatchNewPoints(symbol_data,
                          CHOOSE sorted \in SortedGroups(op'.points) : TRUE)
       IN  inserted =>
               IF size > MaxMemoryPoints
               THEN mem_total_points' = 0
               ELSE mem_total_points' = size /\ UNCHANGED diskVars
    ]_vars

\* C16: with each thread writing pairwise-distinct timestamps to its own
\* symbol, automatic flushes included, and reads running beside the writes,
\* every read_range result is sorted by timestamp and holds no written
\* point twice.
C16_ConcurrentReadNoDuplicate ==
    \A t \in Threads :
        op[t].pc = "done" => IsStrictlyIncreasing(result[t])

\* C17: whenever no operation of the segment store is in progress, a
\* segment file exists in the data directory if and only if the index has
\* an entry whose file_path is that file.
C17_FileIffIndexEntry ==
    Idle =>
        DOMAIN files =
            UNION {{metadata[s][id].file_path : id \in SegmentIds(metadata, s)} :
                      s \in DOMAIN metadata}

\* C18: every segment that DiskLayer::write_batch creates gets the id
\* max(existing ids) + 1 (0 if none); no step replaces an index entry or
\* overwrites a segment file that exists, whatever the interleaving of
\* concurrent write_batch calls.
C18_WriteBatchNeverOverwrites ==
    [][/\ \A f \in DOMAIN files : f \in DOMAIN files' /\ files'[f] = files[f]
       /\ \A s \in DOMAIN metadata :
              \A id \in SegmentIds(metadata, s) :
                  id \in SegmentIds(metadata', s) /\ metadata'[s][id] = metadata[s][id]
       /\ \A s \in DOMAIN metadata' :
              \A id \in SegmentIds(metadata', s) \ SegmentIds(metadata, s) :
                  id = NextSegmentId(metadata, s)
    ]_vars

C20_OptimizeReturnsCompacted ==
    [][(op'.name = "optimize" /\ \E sym \in Symbols : HasSegments(metadata, sym)) =>
           /\ ret' = "true"
           /\ \E o \in OptimizeOutcomes(symbol_data, mem_total_points, Disk, "proceed") :
                  metadata' = o.metadata /\ files' = o.files
    ]_vars

\* C21: engine calls issued from several threads all return: no reachable
\* state is a deadlock, in which a reader that holds the segment store's
\* lock waits for it again behind a writer that waits for the reader.
C21_NoDeadlock ==
    \A r \in Threads, w \in Threads :
        ~(op[r].pc = "blocked" /\ op[w].pc = "store_lock")

\* C22: in optimize_index a failure while one symbol is compacted does not
\* stop the pass and does not reach the caller: the call returns, and every
\* other symbol of the index, the file system not failing on it, is left
\* as its compaction leaves it.
C22_FailureIsolatedPerSymbol ==
    [][op'.name = "optimize_index" =>
           \A s \in DOMAIN metadata, other \in DOMAIN metadata :
               LET failed == HasSegments(metadata, s)
                             /\ (op'.relock = "throw" \/ op'.io[s] = "open_fails")
               IN  (s # other /\ failed /\ op'.io[other] = "ok"
                       /\ ~(\E id \in SegmentIds(metadata, other) :
                               ReadSegmentThrows(Disk, other, id))) =>
                       /\ ret' = "true"
                       /\ \E all_points \in SortedAllPoints(Disk, other) :
                              LET o == OptimizeSymbol(Disk, other, all_points, "ok")
                              IN  metadata'[other] = o.metadata[other]
    ]_vars

\* C23: write_segment adds the index entry of a segment only when the file
\* was created, written in full and closed; if one of these fails the index
\* is left as it was.  Hence every entry of the index names a file that
\* exists and is whole, and a step that leaves a file short adds no entry.
C23_IndexOnlyAfterFileWritten ==
    [][\A s \in DOMAIN metadata' :
           \A id \in SegmentIds(metadata', s) :
               LET path == metadata'[s][id].file_path
               IN  (path \in DOMAIN files' /\ ~files'[path].complete) =>
                       /\ id \in SegmentIds(metadata, s)
                       /\ metadata'[s][id] = metadata[s][id]
    ]_vars

\* C24: constructing a segment store over a directory that holds .dat files
\* with unparseable names succeeds: no error is raised, each such file is
\* skipped and every other .dat file is indexed.
C24_UnparseableNamesSkipped ==
    [][op'.name = "disk_reopen" =>
           /\ ret' = "true"
           /\ \A f \in DatFiles(files) :
                  (f[2] \in DOMAIN Stoll /\ f[Len(f) - 1] \in DOMAIN Stoll) =>
                      \E id \in SegmentIds(metadata', f[1]) :
                          metadata'[f[1]][id].file_path = f
    ]_vars

\* C25: every segment written through an engine constructed with
\* enable_compression = b is recorded with compressed = b, for both b.
C25_CompressionOptionSelectsFormat ==
    op.name = "configured_write_flush" =>
        \A s \in DOMAIN metadata :
            \A id \in SegmentIds(metadata, s) :
                /\ metadata[s][id].compressed = op.enable_compression
                /\ files[metadata[s][id].file_path].info.compressed = op.enable_compression

\* C26: get_symbols returns exactly the symbols that have a point in the
\* memory buffer; a symbol whose points are all on disk after a flush is
\* not in the set.
C26_GetSymbolsOnlyBuffered ==
    op.name = "engine_get_symbols" =>
        op.symbols = {s \in Symbols : PointsOf(symbol_data, s) # <<>>}

\* C27: insert_batch keeps, for each symbol and timestamp, the point that
\* arrived first: a point of the buffer is never replaced by a batch point
\* of its timestamp, and of several batch points of one timestamp the one
\* that comes first in the batch is kept.
C27_InsertBatchKeepsEarliest ==
    [][op'.name = "insert_batch" =>
           \A p \in Points :
               LET before == Range(PointsOf(symbol_data, p.symbol))
                   same(q) == q.symbol = p.symbol /\ q.timestamp = p.timestamp
                   batch == SelectSeq(op'.points, same)
                   earliest == IF \E q \in before : same(q)
                               THEN CHOOSE q \in before : same(q)
                               ELSE Head(batch)
               IN  p \in Range(PointsOf(symbol_data', p.symbol)) => p = earliest
    ]_vars

\* C28: for a batch whose points have pairwise-distinct (symbol, timestamp)
\* and any permutation of it, write_batch of the permutation leaves the same
\* buffer as write_batch of the batch, and a flush of that buffer the same
\* segments.
C28_PermutedBatchSameContents ==
    [][op'.name = "write_batch" =>
           LET points == op'.points
               key(p) == <<p.symbol, p.timestamp>>
               distinct == \A i, j \in DOMAIN points :
                               key(points[i]) = key(points[j]) => i = j
               permutations ==
                   {perm \in Batches :
                       /\ Len(perm) = Len(points)
                       /\ Range(perm) = Range(points)}
               buffers(batch) ==
                   {[symbol_data |-> MemInsertBatch(symbol_data, sorted),
                     n |-> mem_total_points + MemBatchNewPoints(symbol_data, sorted)] :
                        sorted \in SortedGroups(batch)}
               segments(b) ==
                   {[metadata |-> f.metadata, files |-> f.files] :
                        f \in FlushOutcomes(b.symbol_data, b.n, Disk)}
           IN  distinct /\ points /= <<>> =>
                   \A perm \in permutations :
                       \A b \in buffers(perm) :
                           /\ buffers(points) = {b}
                           /\ IF NeedsFlush(b.n)
                              THEN segments(b) = {[metadata |-> metadata', files |-> files']}
                              ELSE /\ symbol_data' = b.symbol_data
                                   /\ \A c \in buffers(points) : segments(c) = segments(b)
    ]_vars

\* C28 witness: a write_batch of two points of one symbol given in
\* descending timestamp order has returned true, and it flushed the buffer.
C28_Witness ==
    /\ op.name = "write_batch"
    /\ ret = "true"
    /\ Len(op.points) = 2
    /\ op.points[1].symbol = op.points[2].symbol
    /\ op.points[1].timestamp > op.points[2].timestamp
    /\ mem_total_points = 0
    /\ metadata /= <<>>

\* C29: in every reachable state every entry of the segment index has
\* num_points > 0 and equal to the number of points of its segment; the
\* points of the segment are in non-decreasing timestamp order and carry
\* the entry's symbol; start_time is the least and end_time the greatest
\* timestamp of the segment, and start_time <= end_time.
C29_IndexEntryDescribesSegment ==
    \A s \in DOMAIN metadata :
        \A id \in SegmentIds(metadata, s) :
            LET info == metadata[s][id]
                points == ReadSegment(Disk, s, id)
            IN  /\ info.num_points > 0
                /\ info.start_time <= info.end_time
                /\ ~ReadSegmentThrows(Disk, s, id)
                /\ info.num_points = Len(points)
                /\ \A i \in DOMAIN points :
                       /\ points[i].symbol = s
                       /\ info.start_time <= points[i].timestamp
                       /\ points[i].timestamp <= info.end_time
                       /\ \A j \in DOMAIN points :
                              i < j => points[i].timestamp <= points[j].timestamp
                /\ \E i, j \in DOMAIN points :
                       /\ points[i].timestamp = info.start_time
                       /\ points[j].timestamp = info.end_time

\* C30: after optimize_index completes, a symbol that held n distinct
\* timestamps has exactly ceil(n/C) segments with ids 0..ceil(n/C)-1, each
\* of at most C points and all but the last of exactly C, and the end_time
\* of each is strictly less than the start_time of the next (C is the
\* number of points per compacted segment).
C30_OptimizeIndexLayout ==
    [][op'.name = "optimize_index" /\ ret' = "true" =>
           \A s \in DOMAIN metadata :
               LET before == Range(ReadSegments(Disk, s, SegmentIds(metadata, s)))
                   n == Cardinality({p.timestamp : p \in before})
                   count == (n + PointsPerSegment - 1) \div PointsPerSegment
                   after == metadata'[s]
               IN  n > 0 =>
                       /\ DOMAIN after = 0..(count - 1)
                       /\ \A id \in DOMAIN after :
                              /\ after[id].num_points <= PointsPerSegment
                              /\ id < count - 1 => after[id].num_points = PointsPerSegment
                              /\ id < count - 1 =>
                                     after[id].end_time < after[id + 1].start_time
    ]_vars

\* C31: compaction without I/O failure loses no timestamp: for every symbol
\* the set of timestamps readable from the segments after optimize_index or
\* compact_segments is the set readable before it, and compact_segments
\* leaves the segments of every other symbol as they were.
C31_CompactionKeepsTimestamps ==
    [][op'.name \in {"optimize_index", "compact_segments"} =>
           LET after == [metadata |-> metadata', files |-> files', threw |-> FALSE]
               readable(d, s) ==
                   {p.timestamp :
                       p \in Range(ReadSegments(d, s, SegmentIds(d.metadata, s)))}
           IN  /\ DOMAIN metadata' = DOMAIN metadata
               /\ \A s \in DOMAIN metadata :
                      /\ \A id \in SegmentIds(metadata', s) :
                             ~ReadSegmentThrows(after, s, id)
                      /\ readable(after, s) = readable(Disk, s)
                      /\ (op'.name = "compact_segments" /\ s /= op'.symbol) =>
                             /\ metadata'[s] = metadata[s]
                             /\ \A id \in SegmentIds(metadata, s) :
                                    LET path == metadata[s][id].file_path
                                    IN  /\ path \in DOMAIN files'
                                        /\ files'[path] = files[path]
    ]_vars

\* C31 witness: optimize_index got past the mutex and left a symbol with
\* the two segments 0 and 1, the first one full.
C31_Witness ==
    /\ op.name = "optimize_index"
    /\ op.relock = "proceed"
    /\ ret = "true"
    /\ \E s \in DOMAIN metadata :
           /\ DOMAIN metadata[s] = {0, 1}
           /\ metadata[s][0].num_points = PointsPerSegment
           /\ metadata[s][0].end_time < metadata[s][1].start_time

\* C32: for any interleaving of insert, insert_batch and clear_cache calls
\* from several threads, once all calls have returned cache_size() is the
\* number of points held in the sequences of all symbols.
C32_CacheSizeCountsPoints ==
    (\A t \in Threads : op[t] = ThreadIdle) =>
        LET RECURSIVE Held(_)
            Held(S) == IF S = {} THEN 0
                       ELSE LET s == CHOOSE x \in S : TRUE
                            IN  Len(symbol_data[s].points) + Held(S \ {s})
        IN  mem_total_points = Held(DOMAIN symbol_data)

C34_MemoryLockOrder ==
    /\ (\E t \in Threads : op[t].pc = "locked") =>
           ENABLED (mem_insert_locked \/ mem_insert_batch_locked)
    /\ \A t, u \in Threads :
           (op[t].pc = "locked" /\ op[u].pc = "locked" /\ t /= u) =>
               Head(op[t].arg) /= Head(op[u].arg)
    /\ (\E t \in Threads : op[t] /= ThreadIdle) =>
           ENABLED (\/ mem_get_or_create \/ mem_symbol_lock \/ mem_insert_locked
                    \/ mem_insert_batch_locked \/ mem_clear_symbol \/ mem_clear_counts
                    \/ mem_get_range_locked)

\* C34 witness: clear_cache holds global_mutex and waits for the mutex of
\* the symbol that an insert holds.
C34_Witness ==
    \E t, u \in Threads :
        /\ op[t].pc = "clearing"
        /\ op[t].arg /= <<>>
        /\ op[u].pc = "locked"
        /\ Head(op[u].arg) = Head(op[t].arg)

\* C35: get_stats().total_points is the number of points admitted to the
\* memory buffer: a call raises it by the number of points it adds to the
\* buffer, so a write_point refused as a duplicate and the points of a
\* write_batch dropped as duplicates are not counted.
C35_TotalPointsCountsAdmitted ==
    [][LET admitted ==
               IF op'.name = "write_point"
               THEN {IF InsertIsDuplicate(symbol_data, op'.point) THEN 0 ELSE 1}
               ELSE IF op'.name = "write_batch" /\ op'.points /= <<>>
               THEN {MemBatchNewPoints(symbol_data, sorted) :
                        sorted \in SortedGroups(op'.points)}
               ELSE {0}
       IN  \A n \in admitted : total_points' = total_points + n
    ]_vars

\* C36: for any interleaving of write_point, write_batch and flush calls
\* from several threads (no flush fails), whenever no call is in progress
\* the memory buffer holds at most max_memory_points points.
C36_BufferBoundedAtRest ==
    (\A t \in Threads : op[t] = ThreadIdle) =>
        LET RECURSIVE Held(_)
            Held(S) == IF S = {} THEN 0
                       ELSE LET s == CHOOSE x \in S : TRUE
                            IN  Len(symbol_data[s].points) + Held(S \ {s})
        IN  /\ Held(DOMAIN symbol_data) <= MaxMemoryPoints
            /\ mem_total_points <= MaxMemoryPoints

\* C36 witness: all calls have returned, a write_batch and a write_point
\* were made, the buffer was flushed and holds points again.
C36_Witness ==
    /\ \A t \in Threads : op[t] = ThreadIdle
    /\ metadata /= <<>>
    /\ mem_total_points > 0
    /\ total_points > MaxMemoryPoints

\* C37: for writes with pairwise-distinct (symbol, timestamp) and any
\* interleaving of flush calls from several threads (no compaction), each
\* accepted point is in at most one segment on disk: two flushes that
\* overlap never both persist the same snapshot of the buffer.
C37_PointInAtMostOneSegment ==
    \A p \in acked :
        Cardinality({id \in SegmentIds(metadata, p.symbol) :
                        ~ReadSegmentThrows(Disk, p.symbol, id)
                        /\ p \in Range(ReadSegment(Disk, p.symbol, id))}) <= 1

\* C38: after any sequence of put, get and clear on an LRUCache with
\* max_size >= 1 the number of entries is at most max_size, the linked list
\* and the key map hold exactly the same entries, and a put of a new key
\* that overflows the capacity evicts one entry only, the one least
\* recently touched by get or put, never the entry just put.
C38_LruBoundedConsistentEvictsOldest ==
    [][LET RECURSIVE Walk(_, _, _)
           Walk(c, node, n) ==
               IF node = "nullptr" \/ n = 0 THEN <<>>
               ELSE <<node>> \o Walk(c, c.cache_[node].next, n - 1)
           listed(c) == Walk(c, c.head_, Cardinality(CacheKeys) + 1)
           consistent(c) ==
               /\ Cardinality(DOMAIN c.cache_) <= c.max_size_
               /\ Len(listed(c)) = Cardinality(DOMAIN c.cache_)
               /\ Range(listed(c)) = DOMAIN c.cache_
               /\ c.tail_ = IF listed(c) = <<>> THEN "nullptr"
                            ELSE listed(c)[Len(listed(c))]
               /\ \A i \in 1..Len(listed(c)) :
                      c.cache_[listed(c)[i]].prev =
                          IF i = 1 THEN "nullptr" ELSE listed(c)[i - 1]
           before == DOMAIN symbol_data.cache_
           after == DOMAIN symbol_data'.cache_
       IN  /\ consistent(symbol_data)
           /\ consistent(symbol_data')
           /\ (op'.name = "put" /\ op'.key \notin before) =>
                  IF Cardinality(before) = symbol_data.max_size_
                  THEN /\ after = (before \ {result[Len(result)]}) \cup {op'.key}
                       /\ op'.evicted = result[Len(result)]
                  ELSE after = before \cup {op'.key}
    ]_vars

\* C38 witness: a put of the new key k3 into a full cache of two entries
\* has evicted k2, the entry touched least recently, and kept k1.
C38_Witness ==
    /\ op.name = "put"
    /\ op.evicted /= "nullptr"
    /\ symbol_data.max_size_ = 2
    /\ DOMAIN symbol_data.cache_ = {"k1", "k3"}
    /\ op.key = "k3"
    /\ op.evicted = "k2"

\* C39: the capacity of an LRUCache bounds the size of the stored data:
\* when a put under a new key makes the stored values exceed the capacity,
\* the least recently used older entry is evicted, so a get of the old key
\* finds nothing and a get of the new key finds its value.
C39_CapacityBoundsStoredData ==
    [][LET c == symbol_data
           RECURSIVE Size(_)
           Size(S) == IF S = {} THEN 0
                      ELSE LET k == CHOOSE x \in S : TRUE
                           IN  c.cache_[k].value + Size(S \ {k})
       IN  (/\ op'.name = "put"
            /\ op'.key \notin DOMAIN c.cache_
            /\ DOMAIN c.cache_ /= {}
            /\ Size(DOMAIN c.cache_) + op'.value[1] > c.max_size_)
           => /\ result[Len(result)] \notin DOMAIN symbol_data'.cache_
              /\ op'.key \in DOMAIN symbol_data'.cache_
    ]_vars

=============================================================================
